---- MODULE Spec2Model ----
(***************************************************************************)
(* Model of the CSV ingestion service (src/unnamed/part_000).              *)
(*                                                                         *)
(* The handlers modelled are those of the last rewrite in the file (the    *)
(* neon client, lines 760-1218); the type inference and the cell coercion  *)
(* of the first rewrite (Sequelize, lines 36-74 and 303-328) are modelled  *)
(* next to them.  The handlers of the first rewrite (lines 135-343), which *)
(* keep the model of the table in the module variable DataTable, form the  *)
(* specification OrmSpec.                                                  *)
(*                                                                         *)
(* A JavaScript value is a record [t, s]: t is its type tag and s the      *)
(* characters of String(value).  Strings are sequences of one-character    *)
(* strings, so that replace() and toLowerCase() are computed per           *)
(* character.                                                              *)
(***************************************************************************)
EXTENDS Integers, Sequences, FiniteSets, TLC

VARIABLES
    table,      \* the SQL table "data": NoTable or [cols, rows]
    meta,       \* rows of "UploadedFile" with publicId 'data.csv' (owning dataset)
    blob,       \* the Cloudinary asset 'data.csv': NoBlob or the dataset stored
    req,        \* per request slot: the handler's position and local variables
    nreq,       \* number of requests started so far
    lastOk,     \* dataset of the most recent upload answered 200, or "none"
    overlap,    \* TRUE when the current requests of the two slots overlapped
    userData,   \* row set given to the pure functions
    phase,      \* position of the pure-function pipeline
    sqlTypes,   \* inferSqlType per column of the first row
    seqTypes,   \* inferSequelizeType per column of the first row
    processed,  \* processedUserData
    insertSql,  \* result of generateDynamicInsertSql
    createSql,  \* result of generateDynamicCreateTableSql
    cell,       \* one value, the type it is coerced to, and the coerced value
    DataTable   \* the module variable DataTable of the Sequelize rewrite

vars == <<table, meta, blob, req, nreq, lastOk, overlap,
          userData, phase, sqlTypes, seqTypes, processed, insertSql, createSql, cell,
          DataTable>>

durable == <<table, meta, blob>>
handlerVars == <<table, meta, blob, req, nreq, lastOk, overlap, DataTable>>
pureVars == <<userData, phase, sqlTypes, seqTypes, processed, insertSql, createSql, cell>>
\* What the handlers of the neon rewrite leave alone.
otherVars == <<pureVars, DataTable>>

(***************************************************************************)
(* Bounds                                                                  *)
(***************************************************************************)
MaxRows == 3        \* rows of a row set given to the pure functions
MaxRequests == 3    \* requests started in one behaviour

(***************************************************************************)
(* JavaScript values                                                       *)
(***************************************************************************)
cNull == <<"n","u","l","l">>
cUndef == <<"u","n","d","e","f","i","n","e","d">>
cTrue == <<"t","r","u","e">>
cFalse == <<"f","a","l","s","e">>
cFALSE == <<"F","A","L","S","E">>
cTen == <<"1","0">>
cFive == <<"5">>
cZero == <<"0">>
cOne == <<"1">>
cAbc == <<"a","b","c">>
cSpace == <<" ">>
cIts == <<"i","t","'","s">>
cDay == <<"2","0","2","3","-","0","1","-","0","1">>
cYear == <<"2","0","2","3">>
cNaN == <<"N","a","N">>
cIsoDay == <<"2","0","2","3","-","0","1","-","0","1","T","0","0",":","0","0",":","0","0",".","0","0","0","Z">>
cIsoOct == <<"2","0","0","1","-","1","0","-","0","1","T","0","0",":","0","0",":","0","0",".","0","0","0","Z">>
cIsoEpoch == <<"1","9","7","0","-","0","1","-","0","1","T","0","0",":","0","0",":","0","0",".","0","0","0","Z">>
cIsoEpoch1 == <<"1","9","7","0","-","0","1","-","0","1","T","0","0",":","0","0",":","0","0",".","0","0","1","Z">>
cIsoEpoch5 == <<"1","9","7","0","-","0","1","-","0","1","T","0","0",":","0","0",":","0","0",".","0","0","5","Z">>
cIsoEpoch10 == <<"1","9","7","0","-","0","1","-","0","1","T","0","0",":","0","0",":","0","0",".","0","1","0","Z">>
cMsDay == <<"1","6","7","2","5","3","1","2","0","0","0","0","0">>

cNULL == <<"N","U","L","L">>
cCURRENT == <<"C","U","R","R","E","N","T","_","T","I","M","E","S","T","A","M","P">>
cDateText == <<"S","u","n"," ","J","a","n"," ","0","1"," ","2","0","2","3"," ","0","0",":","0","0",":","0","0"," ","G","M","T","+","0","0","0","0"," ","(","C","o","o","r","d","i","n","a","t","e","d"," ","U","n","i","v","e","r","s","a","l"," ","T","i","m","e",")">>

JsNull == [t |-> "null", s |-> cNull]
JsUndefined == [t |-> "undefined", s |-> cUndef]
JsStr(chars) == [t |-> "string", s |-> chars]
JsNum(chars) == [t |-> "number", s |-> chars]
JsBool(b) == [t |-> "boolean", s |-> IF b THEN cTrue ELSE cFalse]
JsDate(iso) == [t |-> "date", s |-> iso]
JsNaN == JsNum(cNaN)
InvalidDate == JsDate(cNaN)

\* The scalars a parsed CSV cell, or a value handed to the functions, can be.
StringValues ==
    { JsStr(<<>>), JsStr(cTen), JsStr(cAbc), JsStr(cTrue), JsStr(cFALSE),
      JsStr(cDay), JsStr(cSpace), JsStr(cIts) }
TypedValues == { JsNum(cFive), JsBool(TRUE), JsBool(FALSE), JsDate(cIsoDay) }
CellValues == StringValues \cup TypedValues \cup {JsNull}

\* value === null || value === undefined || value === ''
IsEmptyValue(v) == v.t = "null" \/ v.t = "undefined" \/ v = JsStr(<<>>)

\* Number(value)
NumberOf(v) ==
    CASE v.t = "number" -> v
      [] v.t = "boolean" -> IF v.s = cTrue THEN JsNum(cOne) ELSE JsNum(cZero)
      [] v.t = "null" -> JsNum(cZero)
      [] v.t = "undefined" -> JsNaN
      [] v.t = "date" -> IF v = InvalidDate THEN JsNaN ELSE JsNum(cMsDay)
      [] v.t = "string" ->
            IF v.s = cTen THEN JsNum(cTen)
            ELSE IF v.s = cFive THEN JsNum(cFive)
            ELSE IF v.s = <<>> \/ v.s = cSpace THEN JsNum(cZero)
            ELSE JsNaN

\* parseFloat(value) of a string
ParseFloatOf(v) ==
    IF v.s = cTen THEN JsNum(cTen)
    ELSE IF v.s = cFive THEN JsNum(cFive)
    ELSE IF v.s = cDay THEN JsNum(cYear)
    ELSE JsNaN

\* isNaN(x) of a number
IsNaN(n) == n = JsNaN

LowerChar(c) ==
    CASE c = "A" -> "a" [] c = "E" -> "e" [] c = "F" -> "f" [] c = "L" -> "l"
      [] c = "R" -> "r" [] c = "S" -> "s" [] c = "T" -> "t" [] c = "U" -> "u"
      [] OTHER -> c

\* value.toLowerCase()
ToLowerCase(chars) == [i \in 1..Len(chars) |-> LowerChar(chars[i])]

\* new Date(value)
DateOf(v) ==
    CASE v.t = "date" -> v
      [] v.t = "number" ->
            IF v.s = cFive THEN JsDate(cIsoEpoch5)
            ELSE IF v.s = cTen THEN JsDate(cIsoEpoch10)
            ELSE IF v.s = cOne THEN JsDate(cIsoEpoch1)
            ELSE IF v.s = cZero THEN JsDate(cIsoEpoch)
            ELSE InvalidDate
      [] v.t = "boolean" -> IF v.s = cTrue THEN JsDate(cIsoEpoch1) ELSE JsDate(cIsoEpoch)
      [] v.t = "null" -> JsDate(cIsoEpoch)
      [] v.t = "undefined" -> InvalidDate
      [] v.t = "string" ->
            IF v.s = cDay THEN JsDate(cIsoDay)
            ELSE IF v.s = cTen THEN JsDate(cIsoOct)
            ELSE InvalidDate

\* !isNaN(new Date(value).getTime())
IsValidDate(d) == d # InvalidDate

\* Text the engine reads as a number.
LooksLikeNumber(chars) == ~IsNaN(NumberOf(JsStr(chars))) /\ ~IsNaN(ParseFloatOf(JsStr(chars)))

(***************************************************************************)
(* Rows: a row is the sequence of its <<key, value>> pairs, in key order.  *)
(***************************************************************************)
kX == <<"x">>
kAB == <<"a"," ","b">>
kId == <<"i","d">>
kCreatedAt == <<"c","r","e","a","t","e","d","A","t">>
kUpdatedAt == <<"u","p","d","a","t","e","d","A","t">>

\* Object.keys(row)
ObjectKeys(row) == [i \in 1..Len(row) |-> row[i][1]]

HasKey(row, key) == \E i \in 1..Len(row) : row[i][1] = key

\* row[key]
Get(row, key) ==
    IF HasKey(row, key)
    THEN row[CHOOSE i \in 1..Len(row) : row[i][1] = key][2]
    ELSE JsUndefined

Row1(v) == << <<kX, v>> >>
Row2(v, w) == << <<kX, v>>, <<kAB, w>> >>
RowAB(w) == << <<kAB, w>> >>
RowBA(w, v) == << <<kAB, w>>, <<kX, v>> >>

(***************************************************************************)
(* Type inference                                                          *)
(***************************************************************************)
NoFlags == [hasString |-> FALSE, hasNumber |-> FALSE, hasBoolean |-> FALSE, hasDate |-> FALSE]

\* Variant: a string boolean literal does not count as a string.
ValueFlags_LiteralNotString(value) ==
    IF value.t = "string" THEN
        IF ~IsNaN(NumberOf(value)) /\ ~IsNaN(ParseFloatOf(value))
        THEN [NoFlags EXCEPT !.hasString = TRUE, !.hasNumber = TRUE]
        ELSE IF ToLowerCase(value.s) = cTrue \/ ToLowerCase(value.s) = cFalse
        THEN [NoFlags EXCEPT !.hasBoolean = TRUE]
        ELSE IF IsValidDate(DateOf(value))
        THEN [NoFlags EXCEPT !.hasString = TRUE, !.hasDate = TRUE]
        ELSE [NoFlags EXCEPT !.hasString = TRUE]
    ELSE IF value.t = "number" THEN [NoFlags EXCEPT !.hasNumber = TRUE]
    ELSE IF value.t = "boolean" THEN [NoFlags EXCEPT !.hasBoolean = TRUE]
    ELSE IF value.t = "date" THEN [NoFlags EXCEPT !.hasDate = TRUE]
    ELSE NoFlags

\* The flags one non-empty value sets (the body of the scanning loop).
ValueFlags(value) ==
    IF value.t = "string" THEN
        IF ~IsNaN(NumberOf(value)) /\ ~IsNaN(ParseFloatOf(value))
        THEN [NoFlags EXCEPT !.hasString = TRUE, !.hasNumber = TRUE]
        ELSE IF ToLowerCase(value.s) = cTrue \/ ToLowerCase(value.s) = cFalse
        THEN [NoFlags EXCEPT !.hasString = TRUE, !.hasBoolean = TRUE]
        ELSE IF IsValidDate(DateOf(value))
        THEN [NoFlags EXCEPT !.hasString = TRUE, !.hasDate = TRUE]
        ELSE [NoFlags EXCEPT !.hasString = TRUE]
    ELSE IF value.t = "number" THEN [NoFlags EXCEPT !.hasNumber = TRUE]
    ELSE IF value.t = "boolean" THEN [NoFlags EXCEPT !.hasBoolean = TRUE]
    ELSE IF value.t = "date" THEN [NoFlags EXCEPT !.hasDate = TRUE]
    ELSE NoFlags

OrFlags(f, g) ==
    [hasString |-> f.hasString \/ g.hasString, hasNumber |-> f.hasNumber \/ g.hasNumber,
     hasBoolean |-> f.hasBoolean \/ g.hasBoolean, hasDate |-> f.hasDate \/ g.hasDate]

\* for (const row of data) { ... }: the flags after the first n rows.
RECURSIVE ScanFlags(_, _, _)
ScanFlags(columnName, data, n) ==
    IF n = 0 THEN NoFlags
    ELSE LET value == Get(data[n], columnName)
             before == ScanFlags(columnName, data, n - 1)
         IN  IF IsEmptyValue(value) THEN before
             ELSE OrFlags(before, ValueFlags(value))

\* Variant: the numeric fallback tested before the string rule.
SqlTypeOfFlags_NumberFirst(f) ==
    IF f.hasNumber /\ ~f.hasString /\ ~f.hasDate /\ ~f.hasBoolean THEN "NUMERIC"
    ELSE IF f.hasDate /\ ~f.hasString /\ ~f.hasNumber /\ ~f.hasBoolean THEN "TIMESTAMP WITH TIME ZONE"
    ELSE IF f.hasBoolean /\ ~f.hasString /\ ~f.hasNumber /\ ~f.hasDate THEN "BOOLEAN"
    ELSE IF f.hasNumber THEN "NUMERIC"
    ELSE IF f.hasString THEN "VARCHAR(255)"
    ELSE IF f.hasBoolean THEN "BOOLEAN"
    ELSE IF f.hasDate THEN "TIMESTAMP WITH TIME ZONE"
    ELSE "VARCHAR(255)"

SqlTypeOfFlags(f) ==
    IF f.hasNumber /\ ~f.hasString /\ ~f.hasDate /\ ~f.hasBoolean THEN "NUMERIC"
    ELSE IF f.hasDate /\ ~f.hasString /\ ~f.hasNumber /\ ~f.hasBoolean THEN "TIMESTAMP WITH TIME ZONE"
    ELSE IF f.hasBoolean /\ ~f.hasString /\ ~f.hasNumber /\ ~f.hasDate THEN "BOOLEAN"
    ELSE IF f.hasString THEN "VARCHAR(255)"
    ELSE IF f.hasNumber THEN "NUMERIC"
    ELSE IF f.hasBoolean THEN "BOOLEAN"
    ELSE IF f.hasDate THEN "TIMESTAMP WITH TIME ZONE"
    ELSE "VARCHAR(255)"

inferSqlType(columnName, data) == SqlTypeOfFlags(ScanFlags(columnName, data, Len(data)))

\* Variant: the first rule does not ask that no string was seen.
SequelizeTypeOfFlags_NumberWins(f) ==
    IF f.hasNumber THEN "DECIMAL"
    ELSE IF f.hasDate /\ ~f.hasString /\ ~f.hasNumber /\ ~f.hasBoolean THEN "DATE"
    ELSE IF f.hasBoolean /\ ~f.hasString /\ ~f.hasNumber /\ ~f.hasDate THEN "BOOLEAN"
    ELSE IF f.hasString THEN "STRING"
    ELSE IF f.hasBoolean THEN "BOOLEAN"
    ELSE IF f.hasDate THEN "DATE"
    ELSE "STRING"

SequelizeTypeOfFlags(f) ==
    IF f.hasNumber /\ ~f.hasString THEN "DECIMAL"
    ELSE IF f.hasDate /\ ~f.hasString /\ ~f.hasNumber /\ ~f.hasBoolean THEN "DATE"
    ELSE IF f.hasBoolean /\ ~f.hasString /\ ~f.hasNumber /\ ~f.hasDate THEN "BOOLEAN"
    ELSE IF f.hasString /\ f.hasNumber THEN "TEXT"
    ELSE IF f.hasString THEN "STRING"
    ELSE IF f.hasNumber THEN "DECIMAL"
    ELSE IF f.hasBoolean THEN "BOOLEAN"
    ELSE IF f.hasDate THEN "DATE"
    ELSE "STRING"

inferSequelizeType(columnName, data) ==
    SequelizeTypeOfFlags(ScanFlags(columnName, data, Len(data)))

(***************************************************************************)
(* Cell coercion (processedUserData)                                       *)
(***************************************************************************)
\* String(value)
StringOf(v) == IF v.t = "date" /\ v = JsDate(cIsoDay) THEN JsStr(cDateText) ELSE JsStr(v.s)

\* Boolean(value) of a value that is not a string
BooleanOf(v) ==
    CASE v.t = "boolean" -> v
      [] v.t = "number" -> JsBool(v.s # cZero /\ v.s # cNaN)
      [] v.t = "date" -> JsBool(TRUE)
      [] OTHER -> JsBool(FALSE)

\* Variant: no test for the empty value before the conversions.
CoerceValue_NoEmptyCheck(value, inferredType) ==
    IF inferredType = "DECIMAL" THEN
        LET numValue == NumberOf(value) IN IF IsNaN(numValue) THEN JsNull ELSE numValue
    ELSE IF inferredType = "BOOLEAN" THEN
        IF value.t = "string" THEN JsBool(ToLowerCase(value.s) = cTrue)
        ELSE BooleanOf(value)
    ELSE IF inferredType = "DATE" THEN
        LET dateValue == DateOf(value) IN IF IsValidDate(dateValue) THEN dateValue ELSE JsNull
    ELSE StringOf(value)

\* Variant: the converted number and date are kept without the isNaN tests.
CoerceValue_NoNaNCheck(value, inferredType) ==
    IF IsEmptyValue(value) THEN JsNull
    ELSE IF inferredType = "DECIMAL" THEN NumberOf(value)
    ELSE IF inferredType = "BOOLEAN" THEN
        IF value.t = "string" THEN JsBool(ToLowerCase(value.s) = cTrue)
        ELSE BooleanOf(value)
    ELSE IF inferredType = "DATE" THEN DateOf(value)
    ELSE StringOf(value)

\* The branch of the loop body that computes newRow[feature].
CoerceValue(value, inferredType) ==
    IF IsEmptyValue(value) THEN JsNull
    ELSE IF inferredType = "DECIMAL" THEN
        LET numValue == NumberOf(value) IN IF IsNaN(numValue) THEN JsNull ELSE numValue
    ELSE IF inferredType = "BOOLEAN" THEN
        IF value.t = "string" THEN JsBool(ToLowerCase(value.s) = cTrue)
        ELSE BooleanOf(value)
    ELSE IF inferredType = "DATE" THEN
        LET dateValue == DateOf(value) IN IF IsValidDate(dateValue) THEN dateValue ELSE JsNull
    ELSE StringOf(value)

\* userData.map(row => { for (const feature in row) ... })
processedUserData(data) ==
    [r \in 1..Len(data) |->
        [i \in 1..Len(data[r]) |->
            << data[r][i][1],
               CoerceValue(data[r][i][2], inferSequelizeType(data[r][i][1], data)) >> ]]

(***************************************************************************)
(* SQL generation                                                          *)
(***************************************************************************)
IdentChars ==
    { "a","b","c","d","e","f","g","h","i","j","k","l","m","n","o","p","q","r","s","t",
      "u","v","w","x","y","z","A","B","C","D","E","F","G","H","I","J","K","L","M","N",
      "O","P","Q","R","S","T","U","V","W","X","Y","Z","0","1","2","3","4","5","6","7",
      "8","9","_" }

\* name.replace(/[^a-zA-Z0-9_]/g, '_')
Sanitize(name) == [i \in 1..Len(name) |-> IF name[i] \in IdentChars THEN name[i] ELSE "_"]

\* value.replace(/'/g, "''")
RECURSIVE EscapeQuotes(_)
EscapeQuotes(chars) ==
    IF chars = <<>> THEN <<>>
    ELSE (IF Head(chars) = "'" THEN <<"'", "'">> ELSE <<Head(chars)>>) \o EscapeQuotes(Tail(chars))

Thrown(message) == [ok |-> FALSE, error |-> message]
Returned(statement) == [ok |-> TRUE, stmt |-> statement]

\* A column definition of CREATE TABLE: quoted name and the text after it.
ColumnDef(name, sqlType) == [name |-> name, type |-> sqlType]

\* inferSqlTypeFunction(feature, userData): the function value handed to the
\* generator is named by a tag; the handlers pass inferSqlType.
CallInfer(inferSqlTypeFunction, feature, data) ==
    IF inferSqlTypeFunction = "inferSqlType" THEN inferSqlType(feature, data)
    ELSE inferSequelizeType(feature, data)

\* Variant: the audit columns are pushed before the data columns.
generateDynamicCreateTableSql_AuditFirst(tableName, userData_, inferSqlTypeFunction) ==
    IF tableName = "" THEN Thrown("Table name must be provided.")
    ELSE IF Len(userData_) = 0
    THEN Thrown("User data is empty, cannot infer schema for dynamic table creation.")
    ELSE LET keys == ObjectKeys(userData_[1])
             dataColumns ==
                [i \in 1..Len(keys) |->
                    ColumnDef(Sanitize(keys[i]), CallInfer(inferSqlTypeFunction, keys[i], userData_))]
         IN  Returned([kind |-> "create", ifNotExists |-> TRUE, table |-> tableName,
                       columns |->
                          <<ColumnDef(kId, "SERIAL PRIMARY KEY"),
                            ColumnDef(kCreatedAt, "TIMESTAMP WITH TIME ZONE DEFAULT CURRENT_TIMESTAMP"),
                            ColumnDef(kUpdatedAt, "TIMESTAMP WITH TIME ZONE DEFAULT CURRENT_TIMESTAMP")>>
                          \o dataColumns])

\* Variant: the check for an empty row set is missing.
generateDynamicCreateTableSql_NoRowCheck(tableName, userData_, inferSqlTypeFunction) ==
    IF tableName = "" THEN Thrown("Table name must be provided.")
    ELSE LET keys == IF Len(userData_) = 0 THEN <<>> ELSE ObjectKeys(userData_[1])
             dataColumns ==
                [i \in 1..Len(keys) |->
                    ColumnDef(Sanitize(keys[i]), CallInfer(inferSqlTypeFunction, keys[i], userData_))]
         IN  Returned([kind |-> "create", ifNotExists |-> TRUE, table |-> tableName,
                       columns |->
                          <<ColumnDef(kId, "SERIAL PRIMARY KEY")>> \o dataColumns \o
                          <<ColumnDef(kCreatedAt, "TIMESTAMP WITH TIME ZONE DEFAULT CURRENT_TIMESTAMP"),
                            ColumnDef(kUpdatedAt, "TIMESTAMP WITH TIME ZONE DEFAULT CURRENT_TIMESTAMP")>>])

generateDynamicCreateTableSql(tableName, userData_, inferSqlTypeFunction) ==
    IF tableName = "" THEN Thrown("Table name must be provided.")
    ELSE IF Len(userData_) = 0
    THEN Thrown("User data is empty, cannot infer schema for dynamic table creation.")
    ELSE LET firstRow == userData_[1]
             keys == ObjectKeys(firstRow)
             dataColumns ==
                [i \in 1..Len(keys) |->
                    ColumnDef(Sanitize(keys[i]), CallInfer(inferSqlTypeFunction, keys[i], userData_))]
         IN  Returned([kind |-> "create", ifNotExists |-> TRUE, table |-> tableName,
                       columns |->
                          <<ColumnDef(kId, "SERIAL PRIMARY KEY")>> \o dataColumns \o
                          <<ColumnDef(kCreatedAt, "TIMESTAMP WITH TIME ZONE DEFAULT CURRENT_TIMESTAMP"),
                            ColumnDef(kUpdatedAt, "TIMESTAMP WITH TIME ZONE DEFAULT CURRENT_TIMESTAMP")>>])

\* A literal of a VALUES tuple: q tells whether it is written between single quotes.
SqlNull == [q |-> FALSE, s |-> cNULL]
CurrentTimestamp == [q |-> FALSE, s |-> cCURRENT]

\* Variant: the empty string is not written as NULL.
RenderValue_EmptyStringQuoted(value) ==
    IF value.t = "null" \/ value.t = "undefined" THEN SqlNull
    ELSE IF value.t = "string" THEN [q |-> TRUE, s |-> EscapeQuotes(value.s)]
    ELSE IF value.t = "number" \/ value.t = "boolean" THEN [q |-> FALSE, s |-> value.s]
    ELSE IF value.t = "date" THEN [q |-> TRUE, s |-> value.s]
    ELSE [q |-> TRUE, s |-> EscapeQuotes(StringOf(value).s)]

\* The literal the insert generator writes for one cell.
RenderValue(value) ==
    IF IsEmptyValue(value) THEN SqlNull
    ELSE IF value.t = "string" THEN [q |-> TRUE, s |-> EscapeQuotes(value.s)]
    ELSE IF value.t = "number" \/ value.t = "boolean" THEN [q |-> FALSE, s |-> value.s]
    ELSE IF value.t = "date" THEN [q |-> TRUE, s |-> value.s]
    ELSE [q |-> TRUE, s |-> EscapeQuotes(StringOf(value).s)]

EmptyStatement == [kind |-> "empty"]

\* `(${values.join(', ')}, CURRENT_TIMESTAMP, CURRENT_TIMESTAMP)`: the entries of
\* the tuple text. The join of no values is the empty text, which the template
\* still follows with a comma: the tuple then starts with an empty entry.
EmptyEntry == [q |-> FALSE, s |-> <<>>]
TupleEntries(values) ==
    (IF Len(values) = 0 THEN <<EmptyEntry>> ELSE values) \o <<CurrentTimestamp, CurrentTimestamp>>

generateDynamicInsertSql(tableName, userData_) ==
    IF tableName = "" THEN Thrown("Table name must be provided.")
    ELSE IF Len(userData_) = 0 THEN Returned(EmptyStatement)
    ELSE LET firstRecord == userData_[1]
             columnNames == ObjectKeys(firstRecord)
             sanitizedColumnNames ==
                [i \in 1..Len(columnNames) |-> Sanitize(columnNames[i])] \o <<kCreatedAt, kUpdatedAt>>
             valuesClauses ==
                [r \in 1..Len(userData_) |->
                    TupleEntries([i \in 1..Len(columnNames) |->
                                     RenderValue(Get(userData_[r], columnNames[i]))])]
         IN  Returned([kind |-> "insert", table |-> tableName,
                       columns |-> sanitizedColumnNames, values |-> valuesClauses])

\* Durable state and request slots before any request.
NoTable == [exists |-> FALSE]
NoBlob == "none"
Procs == {1, 2}
NoneExists == [table |-> FALSE, meta |-> FALSE, blob |-> FALSE]

\* req.query.page and req.query.limit: a parameter is absent or a text.
NotGiven == [given |-> FALSE, s |-> <<>>]
Given(chars) == [given |-> TRUE, s |-> chars]
NoQuery == [page |-> NotGiven, limit |-> NotGiven]

\* The locals of GET /api/data before they are computed, and its answer before
\* it is sent.
NoPaging == [page |-> 0, limit |-> 0, offset |-> 0, columns |-> <<>>, count |-> 0]
NoReply == [data |-> <<>>, lastPage |-> 0, totalCount |-> 0]

\* The file posted to the analysis service and the JSON it answered, before the
\* handler has fetched the one and received the other.
NoUpstream == [file |-> "none", data |-> "none"]

IdleReq ==
    [op |-> "idle", pc |-> "idle", ds |-> "none", existing |-> FALSE, resp |-> 0,
     log |-> <<>>, start |-> "none", from |-> NoneExists, again |-> FALSE,
     body |-> "none", query |-> NoQuery, paging |-> NoPaging, reply |-> NoReply,
     follows |-> "none", upstream |-> NoUpstream]

HandlerInit ==
    /\ table = NoTable
    /\ meta = {}
    /\ blob = NoBlob
    /\ req = [p \in Procs |-> IdleReq]
    /\ nreq = 0
    /\ lastOk = "none"
    /\ overlap = FALSE
    /\ DataTable = "null"

(***************************************************************************)
(* The pure functions applied to a bounded row set                         *)
(***************************************************************************)
\* Rows of one column, the row without keys, and rows that carry a second key,
\* lack the key x, or list the two keys in the other order.
InputRows ==
    { Row1(v) : v \in CellValues } \cup { <<>> } \cup
    { Row2(JsNum(cFive), JsStr(cIts)), RowAB(JsStr(cAbc)), RowBA(JsBool(TRUE), JsNum(cFive)) }
InputRowSets == UNION { [1..n -> InputRows] : n \in 0..MaxRows }

\* Object.keys(userData[0]), the columns of a row set
ColumnsOf(data) == IF Len(data) = 0 THEN <<>> ELSE ObjectKeys(data[1])

NotComputed == [ok |-> FALSE, error |-> "not computed"]

\* The values and types the coercion branch is applied to on its own: every cell
\* value, the three values whose conversion fails, and every Sequelize type.
CoerceValues == CellValues \cup {JsUndefined, JsNaN, InvalidDate}
SequelizeTypes == {"DECIMAL", "BOOLEAN", "DATE", "STRING", "TEXT"}
NotCoerced == [t |-> "pending", s |-> <<>>]
NoCell == [value |-> JsNull, inferredType |-> "none", result |-> NotCoerced]

PureIdle ==
    /\ userData = <<>>
    /\ phase = "off"
    /\ sqlTypes = <<>>
    /\ seqTypes = <<>>
    /\ processed = <<>>
    /\ insertSql = NotComputed
    /\ createSql = NotComputed
    /\ cell = NoCell

PureInit ==
    /\ HandlerInit
    /\ sqlTypes = <<>>
    /\ seqTypes = <<>>
    /\ processed = <<>>
    /\ insertSql = NotComputed
    /\ createSql = NotComputed
    /\ \/ /\ userData \in InputRowSets
          /\ phase = "input"
          /\ cell = NoCell
       \/ /\ userData = <<>>
          /\ phase = "cell"
          /\ cell \in [value : CoerceValues, inferredType : SequelizeTypes, result : {NotCoerced}]

\* The inference of every column, as both upload handlers run it.
Infer ==
    /\ phase = "input"
    /\ phase' = "inferred"
    /\ sqlTypes' = [i \in 1..Len(ColumnsOf(userData)) |-> inferSqlType(ColumnsOf(userData)[i], userData)]
    /\ seqTypes' = [i \in 1..Len(ColumnsOf(userData)) |-> inferSequelizeType(ColumnsOf(userData)[i], userData)]
    /\ UNCHANGED <<userData, processed, insertSql, createSql, cell>>
    /\ UNCHANGED handlerVars

\* Coercion of the rows, and the two statements generated from the row set.
Generate ==
    /\ phase = "inferred"
    /\ phase' = "generated"
    /\ processed' = processedUserData(userData)
    /\ createSql' = generateDynamicCreateTableSql("data", userData, "inferSqlType")
    /\ insertSql' = generateDynamicInsertSql("data", userData)
    /\ UNCHANGED <<userData, sqlTypes, seqTypes, cell>>
    /\ UNCHANGED handlerVars

\* The coercion branch applied to one value under one inferred type.
Coerce ==
    /\ phase = "cell"
    /\ phase' = "coerced"
    /\ cell' = [cell EXCEPT !.result = CoerceValue(cell.value, cell.inferredType)]
    /\ UNCHANGED <<userData, sqlTypes, seqTypes, processed, insertSql, createSql>>
    /\ UNCHANGED handlerVars

PureNext == Infer \/ Generate \/ Coerce

PureSpec == PureInit /\ [][PureNext]_vars

(***************************************************************************)
(* The SQL engine and the blob store, as the handlers use them             *)
(***************************************************************************)
\* Uploaded files: the rows csv({checkType: true}) parses from each.
DatasetIds == {"A", "B", "C", "D", "E", "F"}

DatasetRows(d) ==
    CASE d = "A" -> << Row1(JsNum(cFive)) >>
      [] d = "B" -> << Row1(JsStr(cAbc)), Row1(JsNum(cFive)) >>
      [] d = "C" -> << << <<kAB, JsBool(TRUE)>> >> >>
      [] d = "D" -> << Row1(JsNum(cFive)), Row1(JsBool(TRUE)) >>
      [] d = "F" -> << Row1(JsNum(cFive)), Row1(JsStr(<<>>)), Row1(JsNum(cTen)) >>
      [] OTHER -> << >>

\* Whether the engine can assign the literal to a column of the type.
LiteralFits(lit, sqlType) ==
    IF lit = SqlNull THEN TRUE
    ELSE IF lit = CurrentTimestamp
         THEN sqlType \in {"TIMESTAMP WITH TIME ZONE", "VARCHAR(255)",
                           "TIMESTAMP WITH TIME ZONE DEFAULT CURRENT_TIMESTAMP"}
    ELSE IF sqlType = "VARCHAR(255)" THEN TRUE
    ELSE IF sqlType = "NUMERIC" THEN LooksLikeNumber(lit.s)
    ELSE IF sqlType = "BOOLEAN" THEN ToLowerCase(lit.s) \in {cTrue, cFalse}
    ELSE lit.q /\ IsValidDate(DateOf(JsStr(lit.s))) /\ ~LooksLikeNumber(lit.s)

ColumnNames(t) == [i \in 1..Len(t.cols) |-> t.cols[i].name]

ColumnType(t, name) == t.cols[CHOOSE i \in 1..Len(t.cols) : t.cols[i].name = name].type

\* Whether the engine executes the INSERT: the table and every named column
\* exist, no column is named twice, every tuple has one entry per named column
\* and every literal fits its column.
AcceptsInsert(t, stmt) ==
    /\ t.exists
    /\ stmt.kind = "insert"
    /\ \A r \in 1..Len(stmt.values) : Len(stmt.values[r]) = Len(stmt.columns)
    /\ \A i \in 1..Len(stmt.columns) :
          /\ \E j \in 1..Len(t.cols) : t.cols[j].name = stmt.columns[i]
          /\ \A k \in 1..Len(stmt.columns) : stmt.columns[k] = stmt.columns[i] => k = i
    /\ \A r \in 1..Len(stmt.values) :
          \A i \in 1..Len(stmt.columns) :
              LiteralFits(stmt.values[r][i], ColumnType(t, stmt.columns[i]))

\* The stored row of one VALUES tuple: one literal per column of the table after
\* "id", NULL where the statement names no such column.
StoredRow(t, stmt, r) ==
    [j \in 1..(Len(t.cols) - 1) |->
        IF \E i \in 1..Len(stmt.columns) : stmt.columns[i] = t.cols[j + 1].name
        THEN stmt.values[r][CHOOSE i \in 1..Len(stmt.columns) : stmt.columns[i] = t.cols[j + 1].name]
        ELSE SqlNull]

\* INSERT INTO "data" (...) VALUES ...: rows are appended in statement order.
ExecInsert(t, stmt) ==
    [t EXCEPT !.rows = t.rows \o [r \in 1..Len(stmt.values) |-> StoredRow(t, stmt, r)]]

\* CREATE TABLE IF NOT EXISTS "data" (...)
ExecCreate(t, stmt) ==
    IF t.exists THEN t ELSE [exists |-> TRUE, cols |-> stmt.columns, rows |-> <<>>]

\* Variant: the statement leaves the table in place.
ExecDrop_Keep(t) == t

\* DROP TABLE IF EXISTS "data"
ExecDrop(t) == NoTable

\* The table a completed upload of the dataset builds from nothing.
TableOf(d) ==
    ExecInsert(ExecCreate(NoTable, generateDynamicCreateTableSql("data", DatasetRows(d), "inferSqlType").stmt),
               generateDynamicInsertSql("data", DatasetRows(d)).stmt)

(***************************************************************************)
(* The request handlers: one action per awaited call                       *)
(***************************************************************************)
InFlight(p) == req[p].pc \notin {"idle", "done"}

\* Absent, Present, or a state where only some of table, record and blob exist.
StateKind ==
    IF table.exists /\ meta # {} /\ blob # NoBlob THEN "Present"
    ELSE IF ~table.exists /\ meta = {} /\ blob = NoBlob THEN "Absent"
    ELSE "Partial"

\* Which of table, metadata record and blob exist.
Exists == [table |-> table.exists, meta |-> meta # {}, blob |-> blob # NoBlob]

\* A request entering a slot: it remembers the kind of state it started in; a
\* delete also remembers which of the three existed, and whether it follows a
\* delete of the same slot that was answered 200; a page read remembers the
\* dataset of the upload answered 200 that only page reads answered 200 separate
\* it from.
NewReq(kind, d, first, before) ==
    [op |-> kind, pc |-> first, ds |-> d, existing |-> FALSE, resp |-> 0,
     log |-> <<>>, start |-> StateKind,
     from |-> IF kind = "delete" THEN Exists ELSE NoneExists,
     again |-> (kind = "delete" /\ before.op = "delete" /\ before.resp = 200),
     body |-> "none", query |-> NoQuery, paging |-> NoPaging, reply |-> NoReply,
     follows |-> IF kind # "data" THEN "none"
                 ELSE IF before.op = "upload" /\ before.resp = 200 THEN before.ds
                 ELSE IF before.op = "data" /\ before.resp = 200 THEN before.follows
                 ELSE "none",
     upstream |-> NoUpstream]

\* The call of the current position returned: note it and move on.
Advance(r, next) == [r EXCEPT !.pc = next, !.log = Append(r.log, r.pc)]

\* res.status(code) ends the request.
Respond(r, code) == [r EXCEPT !.pc = "done", !.resp = code]

\* The call of the current position threw: the catch block answers 500.
Caught(r) == Respond(r, 500)

\* The last awaited call returned and the handler answers.
Finish(r, code) == Respond(Advance(r, "done"), code)

CanStart(p) == req[p].pc \in {"idle", "done"} /\ nreq < MaxRequests

Started(p) ==
    /\ nreq' = nreq + 1
    /\ overlap' = (\E q \in Procs \ {p} : InFlight(q))

\* POST /api/upload received; without a file the answer is 400.
StartUpload(p, files) ==
    /\ CanStart(p)
    /\ \E d \in files, hasFile \in BOOLEAN :
          req' = [req EXCEPT ![p] =
                    IF hasFile THEN NewReq("upload", d, "selectExisting", req[p])
                    ELSE Respond(NewReq("upload", "none", "idle", req[p]), 400)]
    /\ Started(p)
    /\ UNCHANGED <<table, meta, blob, lastOk>>
    /\ UNCHANGED otherVars

At(p, kind, pc) == req[p].op = kind /\ req[p].pc = pc

AfterSelectExisting(found) == IF found THEN "checkTable" ELSE "putBlob"

\* existingFile = SELECT * FROM "UploadedFile" WHERE "publicId" = 'data.csv'
UploadSelectExisting(p) ==
    /\ At(p, "upload", "selectExisting")
    /\ \E ok \in BOOLEAN :
          req' = [req EXCEPT ![p] =
                    IF ok THEN Advance([req[p] EXCEPT !.existing = (meta # {})],
                                       AfterSelectExisting(meta # {}))
                    ELSE Caught(req[p])]
    /\ UNCHANGED <<table, meta, blob, nreq, lastOk, overlap>>
    /\ UNCHANGED otherVars

AfterCheckTable(exists) == IF exists THEN "dropTable" ELSE "destroyBlob"

\* dataTable = SELECT EXISTS (... information_schema.tables ... 'data')
UploadCheckTable(p) ==
    /\ At(p, "upload", "checkTable")
    /\ \E ok \in BOOLEAN :
          req' = [req EXCEPT ![p] =
                    IF ok THEN Advance(req[p], AfterCheckTable(table.exists))
                    ELSE Caught(req[p])]
    /\ UNCHANGED <<table, meta, blob, nreq, lastOk, overlap>>
    /\ UNCHANGED otherVars

\* DROP TABLE IF EXISTS "data"
UploadDropTable(p) ==
    /\ At(p, "upload", "dropTable")
    /\ \E ok \in BOOLEAN :
          IF ok THEN /\ table' = ExecDrop(table)
                     /\ req' = [req EXCEPT ![p] = Advance(req[p], "destroyBlob")]
          ELSE /\ req' = [req EXCEPT ![p] = Caught(req[p])]
               /\ UNCHANGED table
    /\ UNCHANGED <<meta, blob, nreq, lastOk, overlap>>
    /\ UNCHANGED otherVars

\* cloudinary.uploader.destroy(existingFile[0].publicId)
UploadDestroyBlob(p) ==
    /\ At(p, "upload", "destroyBlob")
    /\ \E ok \in BOOLEAN :
          IF ok THEN /\ blob' = NoBlob
                     /\ req' = [req EXCEPT ![p] = Advance(req[p], "deleteMeta")]
          ELSE /\ req' = [req EXCEPT ![p] = Caught(req[p])]
               /\ UNCHANGED blob
    /\ UNCHANGED <<table, meta, nreq, lastOk, overlap>>
    /\ UNCHANGED otherVars

\* DELETE FROM "UploadedFile" WHERE "publicId" = 'data.csv'
UploadDeleteMeta(p) ==
    /\ At(p, "upload", "deleteMeta")
    /\ \E ok \in BOOLEAN :
          IF ok THEN /\ meta' = {}
                     /\ req' = [req EXCEPT ![p] = Advance(req[p], "putBlob")]
          ELSE /\ req' = [req EXCEPT ![p] = Caught(req[p])]
               /\ UNCHANGED meta
    /\ UNCHANGED <<table, blob, nreq, lastOk, overlap>>
    /\ UNCHANGED otherVars

\* cloudinary.uploader.upload(..., {public_id: 'data.csv'}): the asset is replaced
UploadPutBlob(p) ==
    /\ At(p, "upload", "putBlob")
    /\ \E ok \in BOOLEAN :
          IF ok THEN /\ blob' = req[p].ds
                     /\ req' = [req EXCEPT ![p] = Advance(req[p], "insertMeta")]
          ELSE /\ req' = [req EXCEPT ![p] = Caught(req[p])]
               /\ UNCHANGED blob
    /\ UNCHANGED <<table, meta, nreq, lastOk, overlap>>
    /\ UNCHANGED otherVars

\* INSERT INTO "UploadedFile" ...: "publicId" is UNIQUE, a second record is rejected
UploadInsertMeta(p) ==
    /\ At(p, "upload", "insertMeta")
    /\ \E ok \in BOOLEAN :
          IF ok /\ meta = {}
          THEN /\ meta' = {req[p].ds}
               /\ req' = [req EXCEPT ![p] = Advance(req[p], "selectNew")]
          ELSE /\ req' = [req EXCEPT ![p] = Caught(req[p])]
               /\ UNCHANGED meta
    /\ UNCHANGED <<table, blob, nreq, lastOk, overlap>>
    /\ UNCHANGED otherVars

\* newUploadedFile = (SELECT ...)[0]; the CSV is parsed; newUploadedFile.secureUrl
\* throws when no record was found.
UploadSelectNew(p) ==
    /\ At(p, "upload", "selectNew")
    /\ \E ok \in BOOLEAN :
          req' = [req EXCEPT ![p] =
                    IF ok /\ meta # {} THEN Advance(req[p], "fetchBlob")
                    ELSE Caught(req[p])]
    /\ UNCHANGED <<table, meta, blob, nreq, lastOk, overlap>>
    /\ UNCHANGED otherVars

\* axios.get(newUploadedFile.secureUrl): fails when the asset is gone
UploadFetchBlob(p) ==
    /\ At(p, "upload", "fetchBlob")
    /\ \E ok \in BOOLEAN :
          req' = [req EXCEPT ![p] =
                    IF ok /\ blob # NoBlob THEN Advance(req[p], "callAnalysis")
                    ELSE Caught(req[p])]
    /\ UNCHANGED <<table, meta, blob, nreq, lastOk, overlap>>
    /\ UNCHANGED otherVars

\* axios.post(`${AI_SERVICE_URL}/upload`, formData)
UploadCallAnalysis(p) ==
    /\ At(p, "upload", "callAnalysis")
    /\ \E ok \in BOOLEAN :
          req' = [req EXCEPT ![p] =
                    IF ok THEN Advance(req[p], "createTable") ELSE Caught(req[p])]
    /\ UNCHANGED <<table, meta, blob, nreq, lastOk, overlap>>
    /\ UNCHANGED otherVars

\* createTableSql = generateDynamicCreateTableSql("data", userData, inferSqlType);
\* sql.query(createTableSql)
UploadCreateTable(p) ==
    /\ At(p, "upload", "createTable")
    /\ LET createTableSql ==
              generateDynamicCreateTableSql("data", DatasetRows(req[p].ds), "inferSqlType")
       IN  \E ok \in BOOLEAN :
              IF ok /\ createTableSql.ok
              THEN /\ table' = ExecCreate(table, createTableSql.stmt)
                   /\ req' = [req EXCEPT ![p] = Advance(req[p], "insertRows")]
              ELSE /\ req' = [req EXCEPT ![p] = Caught(req[p])]
                   /\ UNCHANGED table
    /\ UNCHANGED <<meta, blob, nreq, lastOk, overlap>>
    /\ UNCHANGED otherVars

\* What the handler does when the INSERT is rejected: the catch block answers.
OnInsertRejected(t) == t

\* insertSql = generateDynamicInsertSql("data", userData); sql.query(insertSql);
\* then res.status(200)
UploadInsertRows(p) ==
    /\ At(p, "upload", "insertRows")
    /\ LET insertStmt == generateDynamicInsertSql("data", DatasetRows(req[p].ds))
       IN  \E ok \in BOOLEAN :
              IF ok /\ insertStmt.ok /\ AcceptsInsert(table, insertStmt.stmt)
              THEN /\ table' = ExecInsert(table, insertStmt.stmt)
                   /\ req' = [req EXCEPT ![p] = Finish(req[p], 200)]
                   /\ lastOk' = req[p].ds
              ELSE /\ table' = OnInsertRejected(table)
                   /\ req' = [req EXCEPT ![p] = Caught(req[p])]
                   /\ UNCHANGED lastOk
    /\ UNCHANGED <<meta, blob, nreq, overlap>>
    /\ UNCHANGED otherVars

\* DELETE /api/table received
StartDelete(p) ==
    /\ CanStart(p)
    /\ req' = [req EXCEPT ![p] = NewReq("delete", "none", "dropTable", req[p])]
    /\ Started(p)
    /\ UNCHANGED <<table, meta, blob, lastOk>>
    /\ UNCHANGED otherVars

\* Variant: the delete leaves the table in place and goes on to the record.
DeleteDropTable_NoDrop(p) ==
    /\ At(p, "delete", "dropTable")
    /\ \E ok \in BOOLEAN :
          req' = [req EXCEPT ![p] = IF ok THEN Advance(req[p], "selectMeta") ELSE Caught(req[p])]
    /\ UNCHANGED <<table, meta, blob, nreq, lastOk, overlap>>
    /\ UNCHANGED otherVars

\* DROP TABLE IF EXISTS "data";
DeleteDropTable(p) ==
    /\ At(p, "delete", "dropTable")
    /\ \E ok \in BOOLEAN :
          IF ok THEN /\ table' = ExecDrop(table)
                     /\ req' = [req EXCEPT ![p] = Advance(req[p], "selectMeta")]
          ELSE /\ req' = [req EXCEPT ![p] = Caught(req[p])]
               /\ UNCHANGED table
    /\ UNCHANGED <<meta, blob, nreq, lastOk, overlap>>
    /\ UNCHANGED otherVars

\* Variant: without a record the answer is 404.
DeleteSelectMeta_NotFound(p) ==
    /\ At(p, "delete", "selectMeta")
    /\ \E ok \in BOOLEAN :
          req' = [req EXCEPT ![p] =
                    IF ~ok THEN Caught(req[p])
                    ELSE IF meta # {} THEN Advance([req[p] EXCEPT !.existing = TRUE], "deleteMeta")
                    ELSE Finish(req[p], 404)]
    /\ UNCHANGED <<table, meta, blob, nreq, lastOk, overlap>>
    /\ UNCHANGED otherVars

\* uploadedFile = SELECT ...; without a record the answer is 200
DeleteSelectMeta(p) ==
    /\ At(p, "delete", "selectMeta")
    /\ \E ok \in BOOLEAN :
          req' = [req EXCEPT ![p] =
                    IF ~ok THEN Caught(req[p])
                    ELSE IF meta # {} THEN Advance([req[p] EXCEPT !.existing = TRUE], "deleteMeta")
                    ELSE Finish(req[p], 200)]
    /\ UNCHANGED <<table, meta, blob, nreq, lastOk, overlap>>
    /\ UNCHANGED otherVars

\* DELETE FROM "UploadedFile" WHERE "publicId" = 'data.csv';
DeleteDeleteMeta(p) ==
    /\ At(p, "delete", "deleteMeta")
    /\ \E ok \in BOOLEAN :
          IF ok THEN /\ meta' = {}
                     /\ req' = [req EXCEPT ![p] = Advance(req[p], "destroyBlob")]
          ELSE /\ req' = [req EXCEPT ![p] = Caught(req[p])]
               /\ UNCHANGED meta
    /\ UNCHANGED <<table, blob, nreq, lastOk, overlap>>
    /\ UNCHANGED otherVars

\* cloudinary.uploader.destroy(uploadedFile[0].publicId); then res.status(200)
DeleteDestroyBlob(p) ==
    /\ At(p, "delete", "destroyBlob")
    /\ \E ok \in BOOLEAN :
          IF ok THEN /\ blob' = NoBlob
                     /\ req' = [req EXCEPT ![p] = Finish(req[p], 200)]
          ELSE /\ req' = [req EXCEPT ![p] = Caught(req[p])]
               /\ UNCHANGED blob
    /\ UNCHANGED <<table, meta, nreq, lastOk, overlap>>
    /\ UNCHANGED otherVars

\* GET /api/check-table received
StartCheck(p) ==
    /\ CanStart(p)
    /\ req' = [req EXCEPT ![p] = NewReq("check", "none", "selectMeta", req[p])]
    /\ Started(p)
    /\ UNCHANGED <<table, meta, blob, lastOk>>
    /\ UNCHANGED otherVars

\* res.json({status: ...})
Json(r, text) == [r EXCEPT !.body = text]
StatusBody(found) == IF found THEN "status: true" ELSE "status: false"

\* uploadedFile = SELECT * FROM "UploadedFile" ...; status is whether a record came
CheckSelectMeta(p) ==
    /\ At(p, "check", "selectMeta")
    /\ \E ok \in BOOLEAN :
          req' = [req EXCEPT ![p] =
                    IF ok THEN Finish(Json(req[p], StatusBody(meta # {})), 200)
                    ELSE Caught(req[p])]
    /\ UNCHANGED <<table, meta, blob, nreq, lastOk, overlap>>
    /\ UNCHANGED otherVars

\* The decimal digits, and the text of a natural number.
Digits == <<"0", "1", "2", "3", "4", "5", "6", "7", "8", "9">>
IsDigit(c) == \E i \in 1..10 : Digits[i] = c
DigitValue(c) == (CHOOSE i \in 1..10 : Digits[i] = c) - 1

RECURSIVE DecimalText(_)
DecimalText(n) ==
    IF n < 10 THEN <<Digits[n + 1]>> ELSE DecimalText(n \div 10) \o <<Digits[(n % 10) + 1]>>

RECURSIVE TrimStart(_)
TrimStart(chars) ==
    IF chars # <<>> /\ Head(chars) = " " THEN TrimStart(Tail(chars)) ELSE chars

RECURSIVE LeadingDigits(_)
LeadingDigits(chars) ==
    IF chars = <<>> \/ ~IsDigit(Head(chars)) THEN <<>>
    ELSE <<Head(chars)>> \o LeadingDigits(Tail(chars))

RECURSIVE DecimalValue(_)
DecimalValue(digits) ==
    IF digits = <<>> THEN 0
    ELSE 10 * DecimalValue(SubSeq(digits, 1, Len(digits) - 1)) + DigitValue(digits[Len(digits)])

\* parseInt(req.query.page): leading blanks and one sign are skipped, the digits
\* that follow are read and the rest is ignored; NaN when there is no digit, and
\* for a parameter that is absent.
NotANumber == [nan |-> TRUE, n |-> 0]
parseInt(q) ==
    IF ~q.given THEN NotANumber
    ELSE LET text == TrimStart(q.s)
             signed == text # <<>> /\ Head(text) \in {"-", "+"}
             digits == LeadingDigits(IF signed THEN Tail(text) ELSE text)
         IN  IF digits = <<>> THEN NotANumber
             ELSE [nan |-> FALSE,
                   n |-> IF signed /\ Head(text) = "-" THEN 0 - DecimalValue(digits)
                         ELSE DecimalValue(digits)]

\* parsed || fallback: NaN and 0 are falsy
OrDefault(parsed, fallback) == IF parsed.nan \/ parsed.n = 0 THEN fallback ELSE parsed.n

\* Variant: pages are counted from zero.
PageOffset_ZeroBased(page, limit) == page * limit

\* offset = (page - 1) * limit
PageOffset(page, limit) == (page - 1) * limit

\* Math.ceil(count / limit), limit not zero
CeilDiv(count, limit) ==
    IF limit > 0 THEN 0 - ((0 - count) \div limit) ELSE 0 - (count \div (0 - limit))

\* The page, limit and offset the handler computes from the query.
PagingOf(query) ==
    LET page == OrDefault(parseInt(query.page), 1)
        limit == OrDefault(parseInt(query.limit), 10)
    IN  [NoPaging EXCEPT !.page = page, !.limit = limit, !.offset = PageOffset(page, limit)]

\* The values of page and of limit a request may carry.
PageValues ==
    { NotGiven, Given(cAbc), Given(cZero), Given(cOne), Given(<<"2">>), Given(<<"3">>),
      Given(<<"-", "1">>), Given(<<"2", "x">>) }
LimitValues ==
    { NotGiven, Given(cAbc), Given(cZero), Given(cOne), Given(<<"2">>), Given(<<"-", "1">>) }

\* GET /api/data received
StartData(p) ==
    /\ CanStart(p)
    /\ \E page \in PageValues, limit \in LimitValues :
          req' = [req EXCEPT ![p] =
                    [NewReq("data", "none", "checkTable", req[p])
                        EXCEPT !.query = [page |-> page, limit |-> limit]]]
    /\ Started(p)
    /\ UNCHANGED <<table, meta, blob, lastOk>>
    /\ UNCHANGED otherVars

\* Variant: no 404 branch, the handler goes on to the queries on the table.
DataCheckTable_NoBranch(p) ==
    /\ At(p, "data", "checkTable")
    /\ \E ok \in BOOLEAN :
          req' = [req EXCEPT ![p] =
                    IF ok THEN Advance([req[p] EXCEPT !.paging = PagingOf(req[p].query)], "columns")
                    ELSE Caught(req[p])]
    /\ UNCHANGED <<table, meta, blob, nreq, lastOk, overlap>>
    /\ UNCHANGED otherVars

\* dataTable = SELECT EXISTS (... information_schema.tables ... 'data');
\* if (!dataTable[0].exists) return res.status(404); then page, limit and offset
\* are computed
DataCheckTable(p) ==
    /\ At(p, "data", "checkTable")
    /\ \E ok \in BOOLEAN :
          req' = [req EXCEPT ![p] =
                    IF ~ok THEN Caught(req[p])
                    ELSE IF table.exists
                    THEN Advance([req[p] EXCEPT !.paging = PagingOf(req[p].query)], "columns")
                    ELSE Finish(Json(req[p], "not found"), 404)]
    /\ UNCHANGED <<table, meta, blob, nreq, lastOk, overlap>>
    /\ UNCHANGED otherVars

\* The names information_schema.columns lists for "data", without the two audit
\* columns: none when the table does not exist.
DesiredColumns(t) ==
    IF t.exists
    THEN SelectSeq(ColumnNames(t), LAMBDA c : c \notin {kCreatedAt, kUpdatedAt})
    ELSE <<>>

\* desiredColumns.map(col => `"${col.replace(...)}"`): the names of the SELECT clause
SelectClause(desiredColumns) ==
    [i \in 1..Len(desiredColumns) |-> Sanitize(desiredColumns[i])]

\* generatePaginatedDataQuery, query 1: the column names; no column left is an error
DataColumns(p) ==
    /\ At(p, "data", "columns")
    /\ \E ok \in BOOLEAN :
          req' = [req EXCEPT ![p] =
                    IF ok /\ Len(DesiredColumns(table)) > 0
                    THEN Advance([req[p] EXCEPT !.paging.columns = SelectClause(DesiredColumns(table))],
                                 "count")
                    ELSE Caught(req[p])]
    /\ UNCHANGED <<table, meta, blob, nreq, lastOk, overlap>>
    /\ UNCHANGED otherVars

\* query 2: SELECT COUNT(*) FROM "data"; fails when the table does not exist
DataCount(p) ==
    /\ At(p, "data", "count")
    /\ \E ok \in BOOLEAN :
          req' = [req EXCEPT ![p] =
                    IF ok /\ table.exists
                    THEN Advance([req[p] EXCEPT !.paging.count = Len(table.rows)], "rows")
                    ELSE Caught(req[p])]
    /\ UNCHANGED <<table, meta, blob, nreq, lastOk, overlap>>
    /\ UNCHANGED otherVars

\* value.replace of the insert generator undone: the text a quoted literal denotes
RECURSIVE UnescapeQuotes(_)
UnescapeQuotes(chars) ==
    IF Len(chars) >= 2 /\ chars[1] = "'" /\ chars[2] = "'"
    THEN <<"'">> \o UnescapeQuotes(Tail(Tail(chars)))
    ELSE IF chars = <<>> THEN <<>>
    ELSE <<Head(chars)>> \o UnescapeQuotes(Tail(chars))

\* The value the driver returns for a stored literal of a column of the type:
\* null, a boolean, a date, and text for NUMERIC and VARCHAR.
Fetched(lit, sqlType) ==
    IF lit = SqlNull THEN JsNull
    ELSE IF sqlType = "BOOLEAN" THEN JsBool(ToLowerCase(lit.s) = cTrue)
    ELSE IF sqlType = "TIMESTAMP WITH TIME ZONE" THEN DateOf(JsStr(lit.s))
    ELSE IF lit.q THEN JsStr(UnescapeQuotes(lit.s))
    ELSE JsStr(lit.s)

\* The row with primary key i as the SELECT clause returns it: "id" is the
\* position of the row in insertion order.
SelectedRow(t, selectClause, i) ==
    [c \in 1..Len(selectClause) |->
        << selectClause[c],
           IF selectClause[c] = kId THEN JsNum(DecimalText(i))
           ELSE LET j == CHOOSE k \in 1..Len(t.cols) : t.cols[k].name = selectClause[c]
                IN  Fetched(t.rows[i][j - 1], t.cols[j].type) >> ]

\* Whether the engine executes the row query: the table and the named columns
\* exist, OFFSET and LIMIT are not negative.
AcceptsSelect(t, selectClause, offset, limit) ==
    /\ t.exists
    /\ \A c \in 1..Len(selectClause) : \E k \in 1..Len(t.cols) : t.cols[k].name = selectClause[c]
    /\ offset >= 0
    /\ limit >= 0

\* SELECT ... FROM "data" ORDER BY "id" ASC OFFSET offset LIMIT limit
ExecSelect(t, selectClause, offset, limit) ==
    LET last == IF offset + limit < Len(t.rows) THEN offset + limit ELSE Len(t.rows)
        n == IF last > offset THEN last - offset ELSE 0
    IN  [k \in 1..n |-> SelectedRow(t, selectClause, offset + k)]

\* query 3: the rows of the page; then lastPage and res.status(200).json(...);
\* a query the engine rejects throws its error, which the catch block sends
DataRows(p) ==
    /\ At(p, "data", "rows")
    /\ LET g == req[p].paging
       IN  \E ok \in BOOLEAN :
              req' = [req EXCEPT ![p] =
                        IF ~ok THEN Caught(req[p])
                        ELSE IF ~AcceptsSelect(table, g.columns, g.offset, g.limit)
                        THEN Caught(Json(req[p], "query rejected"))
                        ELSE Finish(Json([req[p] EXCEPT !.reply =
                                             [data |-> ExecSelect(table, g.columns, g.offset, g.limit),
                                              lastPage |-> CeilDiv(g.count, g.limit),
                                              totalCount |-> g.count]],
                                         "page"), 200)]
    /\ UNCHANGED <<table, meta, blob, nreq, lastOk, overlap>>
    /\ UNCHANGED otherVars

\* What the analysis service may answer to a posted file.
AnalysisResults == {"analysis 1", "analysis 2"}

\* The body of the 200 answer of GET /api/display-cards without a record.
EmptySummary == "No data uploaded"

\* GET /api/display-cards received
StartCards(p) ==
    /\ CanStart(p)
    /\ req' = [req EXCEPT ![p] = NewReq("cards", "none", "selectMeta", req[p])]
    /\ Started(p)
    /\ UNCHANGED <<table, meta, blob, lastOk>>
    /\ UNCHANGED otherVars

\* uploadedFile = SELECT * FROM "UploadedFile" ...; without a record the fixed
\* summary is sent with 200
CardsSelectMeta(p) ==
    /\ At(p, "cards", "selectMeta")
    /\ \E ok \in BOOLEAN :
          req' = [req EXCEPT ![p] =
                    IF ~ok THEN Caught(req[p])
                    ELSE IF meta = {}
                    THEN Finish(Json(req[p], EmptySummary), 200)
                    ELSE Advance([req[p] EXCEPT !.existing = TRUE], "fetchBlob")]
    /\ UNCHANGED <<table, meta, blob, nreq, lastOk, overlap>>
    /\ UNCHANGED otherVars

\* csvDataBuffer = axios.get(uploadedFile[0].secureUrl): fails when the asset is gone
CardsFetchBlob(p) ==
    /\ At(p, "cards", "fetchBlob")
    /\ \E ok \in BOOLEAN :
          req' = [req EXCEPT ![p] =
                    IF ok /\ blob # NoBlob
                    THEN Advance([req[p] EXCEPT !.upstream.file = blob], "callAnalysis")
                    ELSE Caught(req[p])]
    /\ UNCHANGED <<table, meta, blob, nreq, lastOk, overlap>>
    /\ UNCHANGED otherVars

\* response = axios.post(`${AI_SERVICE_URL}/upload`, formData);
\* res.status(200).send(response.data)
CardsCallAnalysis(p) ==
    /\ At(p, "cards", "callAnalysis")
    /\ \E ok \in BOOLEAN, data \in AnalysisResults :
          req' = [req EXCEPT ![p] =
                    IF ok THEN Finish(Json([req[p] EXCEPT !.upstream.data = data], data), 200)
                    ELSE Caught(req[p])]
    /\ UNCHANGED <<table, meta, blob, nreq, lastOk, overlap>>
    /\ UNCHANGED otherVars

\* The two handlers without try/catch: POST /api/smart-question-examples and
\* POST /api/question-answer.
QuestionOps == {"examples", "answer"}

\* The handler ended by an exception nothing catches, without an answer.
Unanswered(r) == [r EXCEPT !.pc = "done"]

\* An exception thrown in an async handler without try/catch: the promise the
\* handler returned is rejected. The router either ignores the promise, and no
\* answer is ever sent, or hands the error to the default error handler, which
\* answers 500 with its own page.
Uncaught(r) == { Unanswered(r), Respond(Json(r, "default error page"), 500) }

\* POST /api/smart-question-examples or POST /api/question-answer received
StartQuestion(p) ==
    /\ CanStart(p)
    /\ \E kind \in QuestionOps :
          req' = [req EXCEPT ![p] = NewReq(kind, "none", "selectMeta", req[p])]
    /\ Started(p)
    /\ UNCHANGED <<table, meta, blob, lastOk>>
    /\ UNCHANGED otherVars

\* uploadedFile = SELECT * FROM "UploadedFile" ...; uploadedFile[0].secureUrl
\* throws a TypeError when no record came
QuestionSelectMeta(p) ==
    /\ req[p].op \in QuestionOps /\ req[p].pc = "selectMeta"
    /\ \E ok \in BOOLEAN :
          IF ~ok THEN \E r \in Uncaught(req[p]) : req' = [req EXCEPT ![p] = r]
          ELSE IF meta = {}
          THEN \E r \in Uncaught(Advance(req[p], "done")) : req' = [req EXCEPT ![p] = r]
          ELSE req' = [req EXCEPT ![p] = Advance([req[p] EXCEPT !.existing = TRUE], "fetchBlob")]
    /\ UNCHANGED <<table, meta, blob, nreq, lastOk, overlap>>
    /\ UNCHANGED otherVars

\* csvDataBuffer = axios.get(uploadedFile[0].secureUrl)
QuestionFetchBlob(p) ==
    /\ req[p].op \in QuestionOps /\ req[p].pc = "fetchBlob"
    /\ \E ok \in BOOLEAN :
          IF ok /\ blob # NoBlob
          THEN req' = [req EXCEPT ![p] = Advance([req[p] EXCEPT !.upstream.file = blob], "callAnalysis")]
          ELSE \E r \in Uncaught(req[p]) : req' = [req EXCEPT ![p] = r]
    /\ UNCHANGED <<table, meta, blob, nreq, lastOk, overlap>>
    /\ UNCHANGED otherVars

\* response = axios.post(`${AI_SERVICE_URL}/...`, formData);
\* res.status(200).json(response.data)
QuestionCallAnalysis(p) ==
    /\ req[p].op \in QuestionOps /\ req[p].pc = "callAnalysis"
    /\ \E ok \in BOOLEAN, data \in AnalysisResults :
          IF ok
          THEN req' = [req EXCEPT ![p] = Finish(Json([req[p] EXCEPT !.upstream.data = data], data), 200)]
          ELSE \E r \in Uncaught(req[p]) : req' = [req EXCEPT ![p] = r]
    /\ UNCHANGED <<table, meta, blob, nreq, lastOk, overlap>>
    /\ UNCHANGED otherVars

\* The handlers that only read.
ReadStep(p) ==
    \/ StartCheck(p)
    \/ CheckSelectMeta(p)
    \/ StartData(p)
    \/ DataCheckTable(p)
    \/ DataColumns(p)
    \/ DataCount(p)
    \/ DataRows(p)
    \/ StartCards(p)
    \/ CardsSelectMeta(p)
    \/ CardsFetchBlob(p)
    \/ CardsCallAnalysis(p)
    \/ StartQuestion(p)
    \/ QuestionSelectMeta(p)
    \/ QuestionFetchBlob(p)
    \/ QuestionCallAnalysis(p)

Step(p, files) ==
    \/ StartUpload(p, files)
    \/ UploadSelectExisting(p)
    \/ UploadCheckTable(p)
    \/ UploadDropTable(p)
    \/ UploadDestroyBlob(p)
    \/ UploadDeleteMeta(p)
    \/ UploadPutBlob(p)
    \/ UploadInsertMeta(p)
    \/ UploadSelectNew(p)
    \/ UploadFetchBlob(p)
    \/ UploadCallAnalysis(p)
    \/ UploadCreateTable(p)
    \/ UploadInsertRows(p)
    \/ StartDelete(p)
    \/ DeleteDropTable(p)
    \/ DeleteSelectMeta(p)
    \/ DeleteDeleteMeta(p)
    \/ DeleteDestroyBlob(p)

ServiceInit == HandlerInit /\ PureIdle

\* Requests run one at a time: a single slot.
SeqNext == Step(1, DatasetIds) \/ ReadStep(1)
SeqSpec == ServiceInit /\ [][SeqNext]_vars

\* Two handler invocations may be in flight together.
ConcDatasetIds == {"A", "B", "C"}
ConcNext == \E p \in Procs : Step(p, ConcDatasetIds)
ConcSpec == ServiceInit /\ [][ConcNext]_vars

(***************************************************************************)
(* The handlers of the Sequelize rewrite, which keep the model of the      *)
(* table "data" in the module variable DataTable                           *)
(***************************************************************************)
\* databaseColumns: one nullable column per key of userData[0], typed by
\* inferSequelizeType; sequelize.define adds id, createdAt and updatedAt.
OrmColumns(d) ==
    LET keys == ObjectKeys(DatasetRows(d)[1])
    IN  <<ColumnDef(kId, "INTEGER")>> \o
        [i \in 1..Len(keys) |-> ColumnDef(keys[i], inferSequelizeType(keys[i], DatasetRows(d)))] \o
        <<ColumnDef(kCreatedAt, "DATE"), ColumnDef(kUpdatedAt, "DATE")>>

\* Whether the engine takes the rows of the model's columns: each column exists
\* in the table with the model's type or with a text type.
OrmAcceptsInsert(t, d) ==
    /\ t.exists
    /\ \A i \in 1..Len(OrmColumns(d)) :
          \E j \in 1..Len(t.cols) :
              /\ t.cols[j].name = OrmColumns(d)[i].name
              /\ t.cols[j].type \in {OrmColumns(d)[i].type, "STRING", "TEXT"}

\* sequelize.sync(): CREATE TABLE IF NOT EXISTS for the defined model
OrmSync(t, d) == IF t.exists THEN t ELSE [exists |-> TRUE, cols |-> OrmColumns(d), rows |-> <<>>]

\* DataTable.bulkCreate(processedUserData)
OrmBulkCreate(t, d) == [t EXCEPT !.rows = t.rows \o processedUserData(DatasetRows(d))]

OrmStartUpload(p, files) ==
    /\ CanStart(p)
    /\ \E d \in files, hasFile \in BOOLEAN :
          req' = [req EXCEPT ![p] =
                    IF hasFile THEN NewReq("upload", d, "findExisting", req[p])
                    ELSE Respond(NewReq("upload", "none", "idle", req[p]), 400)]
    /\ Started(p)
    /\ UNCHANGED <<table, meta, blob, lastOk>>
    /\ UNCHANGED otherVars

\* if (existingFile) { if (DataTable) {...} ... }
AfterFindExisting(found, defined) ==
    IF ~found THEN "putBlob" ELSE IF defined THEN "dropTable" ELSE "destroyBlob"

\* existingFile = UploadedFile.findOne(...)
OrmUploadFindExisting(p) ==
    /\ At(p, "upload", "findExisting")
    /\ \E ok \in BOOLEAN :
          req' = [req EXCEPT ![p] =
                    IF ok THEN Advance([req[p] EXCEPT !.existing = (meta # {})],
                                       AfterFindExisting(meta # {}, DataTable # "null"))
                    ELSE Caught(req[p])]
    /\ UNCHANGED <<table, meta, blob, nreq, lastOk, overlap>>
    /\ UNCHANGED otherVars

\* await DataTable.drop(); DataTable = null;
OrmUploadDropTable(p) ==
    /\ At(p, "upload", "dropTable")
    /\ \E ok \in BOOLEAN :
          IF ok THEN /\ table' = ExecDrop(table)
                     /\ DataTable' = "null"
                     /\ req' = [req EXCEPT ![p] = Advance(req[p], "destroyBlob")]
          ELSE /\ req' = [req EXCEPT ![p] = Caught(req[p])]
               /\ UNCHANGED <<table, DataTable>>
    /\ UNCHANGED <<meta, blob, nreq, lastOk, overlap>>
    /\ UNCHANGED pureVars

\* cloudinary.uploader.destroy(existingFile.publicId)
OrmUploadDestroyBlob(p) ==
    /\ At(p, "upload", "destroyBlob")
    /\ \E ok \in BOOLEAN :
          IF ok THEN /\ blob' = NoBlob
                     /\ req' = [req EXCEPT ![p] = Advance(req[p], "deleteMeta")]
          ELSE /\ req' = [req EXCEPT ![p] = Caught(req[p])]
               /\ UNCHANGED blob
    /\ UNCHANGED <<table, meta, nreq, lastOk, overlap>>
    /\ UNCHANGED otherVars

\* existingFile.destroy()
OrmUploadDeleteMeta(p) ==
    /\ At(p, "upload", "deleteMeta")
    /\ \E ok \in BOOLEAN :
          IF ok THEN /\ meta' = {}
                     /\ req' = [req EXCEPT ![p] = Advance(req[p], "putBlob")]
          ELSE /\ req' = [req EXCEPT ![p] = Caught(req[p])]
               /\ UNCHANGED meta
    /\ UNCHANGED <<table, blob, nreq, lastOk, overlap>>
    /\ UNCHANGED otherVars

\* cloudinary.uploader.upload(..., {public_id: 'data.csv'})
OrmUploadPutBlob(p) ==
    /\ At(p, "upload", "putBlob")
    /\ \E ok \in BOOLEAN :
          IF ok THEN /\ blob' = req[p].ds
                     /\ req' = [req EXCEPT ![p] = Advance(req[p], "createMeta")]
          ELSE /\ req' = [req EXCEPT ![p] = Caught(req[p])]
               /\ UNCHANGED blob
    /\ UNCHANGED <<table, meta, nreq, lastOk, overlap>>
    /\ UNCHANGED otherVars

\* UploadedFile.create({...}): publicId is unique
OrmUploadCreateMeta(p) ==
    /\ At(p, "upload", "createMeta")
    /\ \E ok \in BOOLEAN :
          IF ok /\ meta = {}
          THEN /\ meta' = {req[p].ds}
               /\ req' = [req EXCEPT ![p] = Advance(req[p], "fetchBlob")]
          ELSE /\ req' = [req EXCEPT ![p] = Caught(req[p])]
               /\ UNCHANGED meta
    /\ UNCHANGED <<table, blob, nreq, lastOk, overlap>>
    /\ UNCHANGED otherVars

\* the CSV is parsed; axios.get(newUploadedFile.secureUrl)
OrmUploadFetchBlob(p) ==
    /\ At(p, "upload", "fetchBlob")
    /\ \E ok \in BOOLEAN :
          req' = [req EXCEPT ![p] =
                    IF ok /\ blob # NoBlob THEN Advance(req[p], "callAnalysis")
                    ELSE Caught(req[p])]
    /\ UNCHANGED <<table, meta, blob, nreq, lastOk, overlap>>
    /\ UNCHANGED otherVars

\* axios.post(.../upload); then Object.keys(userData[0]), which throws for no
\* rows, and DataTable = sequelize.define("data", databaseColumns, ...)
OrmUploadCallAnalysis(p) ==
    /\ At(p, "upload", "callAnalysis")
    /\ \E ok \in BOOLEAN :
          IF ok /\ Len(DatasetRows(req[p].ds)) > 0
          THEN /\ DataTable' = req[p].ds
               /\ req' = [req EXCEPT ![p] = Advance(req[p], "sync")]
          ELSE /\ req' = [req EXCEPT ![p] = Caught(req[p])]
               /\ UNCHANGED DataTable
    /\ UNCHANGED <<table, meta, blob, nreq, lastOk, overlap>>
    /\ UNCHANGED pureVars

\* await sequelize.sync()
OrmUploadSync(p) ==
    /\ At(p, "upload", "sync")
    /\ \E ok \in BOOLEAN :
          IF ok THEN /\ table' = OrmSync(table, DataTable)
                     /\ req' = [req EXCEPT ![p] = Advance(req[p], "bulkCreate")]
          ELSE /\ req' = [req EXCEPT ![p] = Caught(req[p])]
               /\ UNCHANGED table
    /\ UNCHANGED <<meta, blob, nreq, lastOk, overlap>>
    /\ UNCHANGED otherVars

\* try { DataTable.bulkCreate(processedUserData) } catch { DataTable.drop(); 500 }
OrmUploadBulkCreate(p) ==
    /\ At(p, "upload", "bulkCreate")
    /\ \E ok \in BOOLEAN, dropOk \in BOOLEAN :
          IF ok /\ OrmAcceptsInsert(table, DataTable)
          THEN /\ table' = OrmBulkCreate(table, DataTable)
               /\ req' = [req EXCEPT ![p] = Finish(req[p], 200)]
               /\ lastOk' = req[p].ds
          ELSE /\ table' = IF dropOk THEN ExecDrop(table) ELSE table
               /\ req' = [req EXCEPT ![p] = Caught(req[p])]
               /\ UNCHANGED lastOk
    /\ UNCHANGED <<meta, blob, nreq, overlap>>
    /\ UNCHANGED otherVars

OrmStartDelete(p) ==
    /\ CanStart(p)
    /\ req' = [req EXCEPT ![p] = NewReq("delete", "none", "dropTable", req[p])]
    /\ Started(p)
    /\ UNCHANGED <<table, meta, blob, lastOk>>
    /\ UNCHANGED otherVars

\* await sequelize.query('DROP TABLE IF EXISTS "data";'); DataTable = null;
OrmDeleteDropTable(p) ==
    /\ At(p, "delete", "dropTable")
    /\ \E ok \in BOOLEAN :
          IF ok THEN /\ table' = ExecDrop(table)
                     /\ DataTable' = "null"
                     /\ req' = [req EXCEPT ![p] = Advance(req[p], "findMeta")]
          ELSE /\ req' = [req EXCEPT ![p] = Caught(req[p])]
               /\ UNCHANGED <<table, DataTable>>
    /\ UNCHANGED <<meta, blob, nreq, lastOk, overlap>>
    /\ UNCHANGED pureVars

\* uploadedFile = UploadedFile.findOne(...); without a record the answer is 200
OrmDeleteFindMeta(p) ==
    /\ At(p, "delete", "findMeta")
    /\ \E ok \in BOOLEAN :
          req' = [req EXCEPT ![p] =
                    IF ~ok THEN Caught(req[p])
                    ELSE IF meta # {} THEN Advance([req[p] EXCEPT !.existing = TRUE], "destroyBlob")
                    ELSE Finish(req[p], 200)]
    /\ UNCHANGED <<table, meta, blob, nreq, lastOk, overlap>>
    /\ UNCHANGED otherVars

\* cloudinary.uploader.destroy(uploadedFile.publicId)
OrmDeleteDestroyBlob(p) ==
    /\ At(p, "delete", "destroyBlob")
    /\ \E ok \in BOOLEAN :
          IF ok THEN /\ blob' = NoBlob
                     /\ req' = [req EXCEPT ![p] = Advance(req[p], "destroyMeta")]
          ELSE /\ req' = [req EXCEPT ![p] = Caught(req[p])]
               /\ UNCHANGED blob
    /\ UNCHANGED <<table, meta, nreq, lastOk, overlap>>
    /\ UNCHANGED otherVars

\* uploadedFile.destroy(); then res.status(200)
OrmDeleteDestroyMeta(p) ==
    /\ At(p, "delete", "destroyMeta")
    /\ \E ok \in BOOLEAN :
          IF ok THEN /\ meta' = {}
                     /\ req' = [req EXCEPT ![p] = Finish(req[p], 200)]
          ELSE /\ req' = [req EXCEPT ![p] = Caught(req[p])]
               /\ UNCHANGED meta
    /\ UNCHANGED <<table, blob, nreq, lastOk, overlap>>
    /\ UNCHANGED otherVars

OrmStartCheck(p) ==
    /\ CanStart(p)
    /\ req' = [req EXCEPT ![p] = NewReq("check", "none", "findMeta", req[p])]
    /\ Started(p)
    /\ UNCHANGED <<table, meta, blob, lastOk>>
    /\ UNCHANGED otherVars

\* uploadedFile = UploadedFile.findOne(...); status is whether a record came
OrmCheckFindMeta(p) ==
    /\ At(p, "check", "findMeta")
    /\ \E ok \in BOOLEAN :
          req' = [req EXCEPT ![p] =
                    IF ok THEN Finish(Json(req[p], StatusBody(meta # {})), 200)
                    ELSE Caught(req[p])]
    /\ UNCHANGED <<table, meta, blob, nreq, lastOk, overlap>>
    /\ UNCHANGED otherVars

\* GET /api/data: if (!DataTable) return res.status(404), before any query
OrmStartData(p) ==
    /\ CanStart(p)
    /\ req' = [req EXCEPT ![p] =
                 IF DataTable = "null"
                 THEN Respond(Json(NewReq("data", "none", "idle", req[p]), "not found"), 404)
                 ELSE NewReq("data", "none", "findAndCountAll", req[p])]
    /\ Started(p)
    /\ UNCHANGED <<table, meta, blob, lastOk>>
    /\ UNCHANGED otherVars

\* DataTable.findAndCountAll({...}): fails when the table does not exist
OrmDataFindAndCountAll(p) ==
    /\ At(p, "data", "findAndCountAll")
    /\ \E ok \in BOOLEAN :
          req' = [req EXCEPT ![p] =
                    IF ok /\ table.exists THEN Finish(Json(req[p], "page"), 200)
                    ELSE Caught(req[p])]
    /\ UNCHANGED <<table, meta, blob, nreq, lastOk, overlap>>
    /\ UNCHANGED otherVars

\* The serving process is restarted between requests: `let DataTable;` runs again.
Restart ==
    /\ \A p \in Procs : ~InFlight(p)
    /\ DataTable # "null"
    /\ DataTable' = "null"
    /\ UNCHANGED <<table, meta, blob, req, nreq, lastOk, overlap>>
    /\ UNCHANGED pureVars

OrmStep(p, files) ==
    \/ OrmStartUpload(p, files)
    \/ OrmUploadFindExisting(p)
    \/ OrmUploadDropTable(p)
    \/ OrmUploadDestroyBlob(p)
    \/ OrmUploadDeleteMeta(p)
    \/ OrmUploadPutBlob(p)
    \/ OrmUploadCreateMeta(p)
    \/ OrmUploadFetchBlob(p)
    \/ OrmUploadCallAnalysis(p)
    \/ OrmUploadSync(p)
    \/ OrmUploadBulkCreate(p)
    \/ OrmStartDelete(p)
    \/ OrmDeleteDropTable(p)
    \/ OrmDeleteFindMeta(p)
    \/ OrmDeleteDestroyBlob(p)
    \/ OrmDeleteDestroyMeta(p)
    \/ OrmStartCheck(p)
    \/ OrmCheckFindMeta(p)
    \/ OrmStartData(p)
    \/ OrmDataFindAndCountAll(p)

\* The Sequelize rewrite, requests one at a time, restarts between requests.
OrmNext == OrmStep(1, DatasetIds) \/ Restart
OrmSpec == ServiceInit /\ [][OrmNext]_vars

(***************************************************************************)
(* Properties of the dataset life cycle                                    *)
(***************************************************************************)
Done(p) == req[p].pc = "done"
Quiet == \A p \in Procs : ~InFlight(p)

EvictionSteps == {"dropTable", "destroyBlob", "deleteMeta"}
AdmissionSteps == {"putBlob", "insertMeta", "createTable", "insertRows"}

\* The calls of the request that returned, in order.
Calls(p) == req[p].log
Called(p, step) == \E i \in 1..Len(Calls(p)) : Calls(p)[i] = step

\* The request ended in the catch block at the call after `step`.
FailedAfter(p, step) ==
    /\ Done(p)
    /\ req[p].resp = 500
    /\ Len(Calls(p)) > 0
    /\ Calls(p)[Len(Calls(p))] = step

\* C1: between requests run one at a time, whatever call failed, the durable state
\* is Absent (no table, no record, no blob) or Present (all three exist).
C1_AbsentOrPresent == Quiet => StateKind \in {"Absent", "Present"}

\* C2: when the bulk insert of an upload is rejected after its CREATE TABLE ran,
\* the request ends with an error answer and the table "data" does not exist.
C2_RejectedInsertDropsTable ==
    (req[1].op = "upload" /\ FailedAfter(1, "createTable")) =>
        (~table.exists /\ req[1].resp = 500)

\* C3: an upload that starts in the Present state completes the three eviction
\* steps before it begins an admission step, and when it has answered 200 the table
\* "data", the one metadata record and the blob are those of the new dataset only.
C3_EvictBeforeAdmit ==
    (req[1].op = "upload" /\ req[1].start = "Present") =>
        /\ (req[1].pc \in AdmissionSteps \/ \E s \in AdmissionSteps : Called(1, s)) =>
              \A e \in EvictionSteps : Called(1, e)
        /\ \A i, j \in 1..Len(Calls(1)) :
              (Calls(1)[i] \in AdmissionSteps /\ Calls(1)[j] \in EvictionSteps) => j < i
        /\ (Done(1) /\ req[1].resp = 200) =>
              /\ table = TableOf(req[1].ds)
              /\ meta = {req[1].ds}
              /\ Cardinality(meta) = 1
              /\ blob = req[1].ds

\* A replacing upload of another dataset than the one that was Present has answered.
C3_Witness ==
    /\ req[1].op = "upload" /\ req[1].start = "Present"
    /\ Done(1) /\ req[1].resp = 200
    /\ req[1].ds = "B"
    /\ table = TableOf("B")
    /\ Called(1, "dropTable")

\* C4: between requests, a table "data" that exists has the columns, types and
\* rows of the most recent upload that was answered 200.
C4_TableMatchesLastUpload ==
    (Quiet /\ table.exists) => (lastOk # "none" /\ table = TableOf(lastOk))

\* C5: once two overlapping uploads of different datasets have both finished, one
\* of them with success, the table has the columns and rows of exactly one of them.
C5_ConcurrentUploadsLeaveOneDataset ==
    (/\ Done(1) /\ Done(2) /\ overlap
     /\ req[1].op = "upload" /\ req[2].op = "upload"
     /\ req[1].ds # "none" /\ req[2].ds # "none" /\ req[1].ds # req[2].ds
     /\ (req[1].resp = 200 \/ req[2].resp = 200)
     /\ table.exists) =>
        (table = TableOf(req[1].ds) \/ table = TableOf(req[2].ds))

(***************************************************************************)
(* Properties of the type inference, the coercion and the insert literals  *)
(***************************************************************************)
KindOfSqlType(t) ==
    CASE t = "NUMERIC" -> "Numeric"
      [] t = "BOOLEAN" -> "Boolean"
      [] t = "TIMESTAMP WITH TIME ZONE" -> "Timestamp"
      [] t = "VARCHAR(255)" -> "Text"
      [] OTHER -> "?"

KindOfSequelizeType(t) ==
    CASE t = "DECIMAL" -> "Numeric"
      [] t = "BOOLEAN" -> "Boolean"
      [] t = "DATE" -> "Timestamp"
      [] t \in {"STRING", "TEXT"} -> "Text"
      [] OTHER -> "?"

LooksNumeric(v) == v.t = "string" /\ ~IsNaN(NumberOf(v)) /\ ~IsNaN(ParseFloatOf(v))
IsBoolLiteral(v) == v.t = "string" /\ ToLowerCase(v.s) \in {cTrue, cFalse}
IsDateString(v) == v.t = "string" /\ IsValidDate(DateOf(v))

\* The values of a column, row by row (undefined where the row lacks the key).
ColumnValues(col, data) == [r \in 1..Len(data) |-> Get(data[r], col)]
NonEmptyValues(col, data) ==
    { ColumnValues(col, data)[r] : r \in { q \in 1..Len(data) : ~IsEmptyValue(Get(data[q], col)) } }

SawString(col, data) == \E v \in NonEmptyValues(col, data) : v.t = "string"
SawNumber(col, data) == \E v \in NonEmptyValues(col, data) : v.t = "number" \/ LooksNumeric(v)
SawBoolean(col, data) ==
    \E v \in NonEmptyValues(col, data) :
        v.t = "boolean" \/ (~LooksNumeric(v) /\ IsBoolLiteral(v))
SawDate(col, data) ==
    \E v \in NonEmptyValues(col, data) :
        v.t = "date" \/ (~LooksNumeric(v) /\ ~IsBoolLiteral(v) /\ IsDateString(v))

\* The decision table of the specification, rules (1) to (9).
PriorityTable(sawString, sawNumber, sawBoolean, sawDate) ==
    IF sawNumber /\ ~sawString THEN "Numeric"
    ELSE IF sawDate /\ ~sawString /\ ~sawNumber /\ ~sawBoolean THEN "Timestamp"
    ELSE IF sawBoolean /\ ~sawString /\ ~sawNumber /\ ~sawDate THEN "Boolean"
    ELSE IF sawString /\ sawNumber THEN "Text"
    ELSE IF sawString THEN "Text"
    ELSE IF sawNumber THEN "Numeric"
    ELSE IF sawBoolean THEN "Boolean"
    ELSE IF sawDate THEN "Timestamp"
    ELSE "Text"

TableKind(col, data) ==
    PriorityTable(SawString(col, data), SawNumber(col, data),
                  SawBoolean(col, data), SawDate(col, data))

Inferred == phase \in {"inferred", "generated"}
Generated == phase = "generated"
Columns == ColumnsOf(userData)

\* The coerced cell of row r for a column (the row has the key).
Coerced(r, col) == Get(processed[r], col)
\* The literal of row r for the i-th column in the insert statement.
Literal(r, i) == insertSql.stmt.values[r][i]

\* C6: for every column and row set, both inferencers return the type that the
\* priority table (1)-(9) gives for the flags sawString, sawNumber, sawBoolean,
\* sawDate of the column's non-empty values.
C6_InferFollowsPriorityTable ==
    Inferred =>
        \A i \in 1..Len(Columns) :
            /\ KindOfSqlType(sqlTypes[i]) = TableKind(Columns[i], userData)
            /\ KindOfSequelizeType(seqTypes[i]) = TableKind(Columns[i], userData)

\* A column holding a number and a boolean and no string: rule (1) of the table
\* applies, where inferSqlType's first rule does not.
C6_Witness ==
    /\ Inferred
    /\ Len(Columns) = 1
    /\ SawNumber(kX, userData) /\ SawBoolean(kX, userData) /\ ~SawString(kX, userData)
    /\ sqlTypes[1] = "NUMERIC" /\ seqTypes[1] = "DECIMAL"

ParsesAsNumber(v) == v.t = "number" \/ LooksNumeric(v)
IsDateLikeString(v) == ~LooksNumeric(v) /\ ~IsBoolLiteral(v) /\ IsDateString(v)

\* The kinds of value a column may hold.
IsOfKind(v, kind) ==
    CASE kind = "number value" -> v.t = "number"
      [] kind = "boolean value" -> v.t = "boolean"
      [] kind = "date value" -> v.t = "date"
      [] kind = "parses as number" -> ParsesAsNumber(v)
      [] kind = "numeric string" -> LooksNumeric(v)
      [] kind = "boolean literal" -> IsBoolLiteral(v)
      [] kind = "date string" -> IsDateLikeString(v)

\* The column has a non-empty value and all its non-empty values are of the kind.
AllNonEmpty(col, data, kind) ==
    /\ NonEmptyValues(col, data) # {}
    /\ \A v \in NonEmptyValues(col, data) : IsOfKind(v, kind)

\* C7 as stated: a column in which every non-empty value parses as a number, be it
\* a number or a numeric-looking string, is Numeric and its cells coerce to numbers.
C7_Original ==
    Generated =>
        \A i \in 1..Len(Columns) :
            AllNonEmpty(Columns[i], userData, "parses as number") =>
                /\ sqlTypes[i] = "NUMERIC"
                /\ seqTypes[i] = "DECIMAL"
                /\ \A r \in 1..Len(userData) :
                      HasKey(userData[r], Columns[i]) =>
                          Coerced(r, Columns[i]).t \in {"number", "null"}

\* C7 amended: a column in which every non-empty value is a number value is
\* Numeric, each number cell coerces to that number and each empty cell to null;
\* a column in which every non-empty value is a numeric-looking string is Text.
C7_NumberColumnsAreNumeric ==
    Generated =>
        \A i \in 1..Len(Columns) :
            /\ AllNonEmpty(Columns[i], userData, "number value") =>
                  /\ sqlTypes[i] = "NUMERIC"
                  /\ seqTypes[i] = "DECIMAL"
                  /\ \A r \in 1..Len(userData) :
                        HasKey(userData[r], Columns[i]) =>
                            Coerced(r, Columns[i]) =
                               IF IsEmptyValue(Get(userData[r], Columns[i]))
                               THEN JsNull ELSE Get(userData[r], Columns[i])
            /\ AllNonEmpty(Columns[i], userData, "numeric string") =>
                  /\ sqlTypes[i] = "VARCHAR(255)"
                  /\ seqTypes[i] = "TEXT"

C7_Witness ==
    /\ Generated
    /\ Len(userData) >= 2
    /\ AllNonEmpty(kX, userData, "number value")
    /\ \E r \in 1..Len(userData) : Get(userData[r], kX) = JsStr(<<>>) /\ Coerced(r, kX) = JsNull
    /\ \E r \in 1..Len(userData) : Coerced(r, kX) = JsNum(cFive)

\* C8 as stated: string boolean literals give Boolean and date-parsable strings
\* give Timestamp, also with empty rows; cells coerce to null / boolean / date.
C8_Original ==
    Generated =>
        \A i \in 1..Len(Columns) :
            /\ AllNonEmpty(Columns[i], userData, "boolean literal") =>
                  /\ sqlTypes[i] = "BOOLEAN"
                  /\ seqTypes[i] = "BOOLEAN"
                  /\ \A r \in 1..Len(userData) :
                        HasKey(userData[r], Columns[i]) =>
                            Coerced(r, Columns[i]).t \in {"boolean", "null"}
            /\ AllNonEmpty(Columns[i], userData, "date string") =>
                  /\ sqlTypes[i] = "TIMESTAMP WITH TIME ZONE"
                  /\ seqTypes[i] = "DATE"
                  /\ \A r \in 1..Len(userData) :
                        HasKey(userData[r], Columns[i]) =>
                            Coerced(r, Columns[i]).t \in {"date", "null"}

CoercedAsIs(i) ==
    \A r \in 1..Len(userData) :
        HasKey(userData[r], Columns[i]) =>
            Coerced(r, Columns[i]) =
               IF IsEmptyValue(Get(userData[r], Columns[i]))
               THEN JsNull ELSE Get(userData[r], Columns[i])

\* C8 amended: a column whose non-empty values are all boolean values is Boolean
\* and one whose non-empty values are all Date values is Timestamp, also when some
\* rows are empty; empty cells coerce to null, the others to the boolean / date.
\* A column whose non-empty values are all string boolean literals, or all
\* date-parsable strings, is Text.
C8_TypedColumnsKeepTheirType ==
    Generated =>
        \A i \in 1..Len(Columns) :
            /\ AllNonEmpty(Columns[i], userData, "boolean value") =>
                  sqlTypes[i] = "BOOLEAN" /\ seqTypes[i] = "BOOLEAN" /\ CoercedAsIs(i)
            /\ AllNonEmpty(Columns[i], userData, "date value") =>
                  sqlTypes[i] = "TIMESTAMP WITH TIME ZONE" /\ seqTypes[i] = "DATE" /\ CoercedAsIs(i)
            /\ (\/ AllNonEmpty(Columns[i], userData, "boolean literal")
                \/ AllNonEmpty(Columns[i], userData, "date string")) =>
                  sqlTypes[i] = "VARCHAR(255)" /\ seqTypes[i] = "STRING"

C8_Witness ==
    /\ Generated
    /\ Len(userData) >= 2
    /\ AllNonEmpty(kX, userData, "boolean value")
    /\ \E r \in 1..Len(userData) : Get(userData[r], kX) = JsStr(<<>>) /\ Coerced(r, kX) = JsNull
    /\ \E r \in 1..Len(userData) : Coerced(r, kX) = JsBool(TRUE)
    /\ sqlTypes[1] = "BOOLEAN"

\* C9 as stated: a column with a numeric-looking value and a non-numeric string is
\* Text and every non-empty value is written into the insert as the quoted string
\* literal of its string form.
C9_MixedColumnStoredAsText ==
    Generated =>
        \A i \in 1..Len(Columns) :
            (/\ \E v \in NonEmptyValues(Columns[i], userData) : ParsesAsNumber(v)
             /\ \E v \in NonEmptyValues(Columns[i], userData) : v.t = "string" /\ ~LooksNumeric(v)) =>
                /\ sqlTypes[i] = "VARCHAR(255)"
                /\ \A r \in 1..Len(userData) :
                      ~IsEmptyValue(Get(userData[r], Columns[i])) =>
                          Literal(r, i) =
                             [q |-> TRUE, s |-> EscapeQuotes(StringOf(Get(userData[r], Columns[i])).s)]

AllEmpty(col, data) == NonEmptyValues(col, data) = {}

\* C10: a column that is null, undefined or '' in every row is Text, every cell of
\* it is coerced to null and written into the insert as NULL.
C10_EmptyColumnIsTextAndNull ==
    Generated =>
        \A i \in 1..Len(Columns) :
            AllEmpty(Columns[i], userData) =>
                /\ sqlTypes[i] = "VARCHAR(255)"
                /\ KindOfSequelizeType(seqTypes[i]) = "Text"
                /\ \A r \in 1..Len(userData) :
                      /\ Literal(r, i) = SqlNull
                      /\ HasKey(userData[r], Columns[i]) => Coerced(r, Columns[i]) = JsNull

\* A column holding '', null and a row without the key (undefined).
C10_Witness ==
    /\ Generated
    /\ Len(userData) = 3
    /\ Columns = <<kX>>
    /\ userData[1] = Row1(JsStr(<<>>))
    /\ userData[2] = Row1(JsNull)
    /\ userData[3] = <<>>
    /\ \A r \in 1..3 : Literal(r, 1) = SqlNull

(***************************************************************************)
(* Properties of the coercion of one cell and of the generated statements  *)
(***************************************************************************)
CoercedCell == phase = "coerced"

\* The type tag of the values of a kind of column.
ValueTagOfKind(kind) ==
    CASE kind = "Numeric" -> "number"
      [] kind = "Boolean" -> "boolean"
      [] kind = "Timestamp" -> "date"
      [] kind = "Text" -> "string"

\* C11: for every value and every inferred type the coercion returns a value,
\* which is null or a value of the kind of the type (a number that is not NaN, a
\* boolean, a valid date, a string); a value whose conversion to a number or to a
\* date fails is coerced to null under Numeric and Timestamp.
C11_CoerceReturnsNullOrKind ==
    CoercedCell =>
        /\ cell.result.t \in {"null", ValueTagOfKind(KindOfSequelizeType(cell.inferredType))}
        /\ cell.result # JsNaN
        /\ cell.result # InvalidDate
        /\ (cell.inferredType = "DECIMAL" /\ IsNaN(NumberOf(cell.value))) => cell.result = JsNull
        /\ (cell.inferredType = "DATE" /\ ~IsValidDate(DateOf(cell.value))) => cell.result = JsNull

\* The string "abc" under Numeric: the conversion fails and the cell becomes null.
C11_Witness ==
    /\ CoercedCell
    /\ cell.value = JsStr(cAbc)
    /\ cell.inferredType = "DECIMAL"
    /\ cell.result = JsNull

\* The literal a cell value has in a column of a kind: NULL for a missing value,
\* else the quoted escaped string form (Text), the unquoted text of the value
\* (Numeric, Boolean), the quoted ISO-8601 form of the date (Timestamp).
TypeCorrectLiteral(v, kind) ==
    IF IsEmptyValue(v) THEN SqlNull
    ELSE CASE kind = "Text" -> [q |-> TRUE, s |-> EscapeQuotes(StringOf(v).s)]
           [] kind = "Numeric" -> [q |-> FALSE, s |-> v.s]
           [] kind = "Boolean" -> [q |-> FALSE, s |-> v.s]
           [] kind = "Timestamp" -> [q |-> TRUE, s |-> DateOf(v).s]

\* C12 as stated: for every row and column, the literal of the cell in the insert
\* statement is the type-correct literal for the column's inferred type.
C12_LiteralAgreesWithInferredType ==
    Generated =>
        \A i \in 1..Len(Columns) : \A r \in 1..Len(userData) :
            Literal(r, i) =
                TypeCorrectLiteral(Get(userData[r], Columns[i]), KindOfSqlType(sqlTypes[i]))

\* The names of the columns of the CREATE TABLE statement after "id".
CreatedColumnNames ==
    [j \in 1..(Len(createSql.stmt.columns) - 1) |-> createSql.stmt.columns[j + 1].name]

\* The sanitized keys of the first row, in key order, then the two audit columns.
ExpectedInsertColumns ==
    [i \in 1..Len(Columns) |-> Sanitize(Columns[i])] \o <<kCreatedAt, kUpdatedAt>>

\* C13 as stated: for every non-empty row set the insert names the sanitized keys
\* of the first row in order and then "createdAt", "updatedAt", the same names in
\* the same order as the columns after "id" of the create statement, and every
\* VALUES tuple has exactly one entry per named column.
C13_InsertColumnsMatchCreate ==
    (Generated /\ Len(userData) > 0) =>
        /\ insertSql.ok /\ createSql.ok
        /\ insertSql.stmt.kind = "insert"
        /\ insertSql.stmt.columns = ExpectedInsertColumns
        /\ insertSql.stmt.columns = CreatedColumnNames
        /\ \A r \in 1..Len(userData) :
              Len(insertSql.stmt.values[r]) = Len(insertSql.stmt.columns)

\* The column types of the engine that carry no constraint (a nullable column).
NativeTypes == {"NUMERIC", "BOOLEAN", "TIMESTAMP WITH TIME ZONE", "VARCHAR(255)"}
AuditType == "TIMESTAMP WITH TIME ZONE DEFAULT CURRENT_TIMESTAMP"

\* C14: for every non-empty row set the create statement lists "id" SERIAL PRIMARY
\* KEY first, then one column per key of the first row, in key order, named by the
\* sanitized key and typed by the native type of the kind the priority table gives
\* the column, with no constraint, then "createdAt" and "updatedAt" with the
\* default-now timestamp type, and nothing else.
C14_CreateTableShape ==
    (Generated /\ Len(userData) > 0) =>
        /\ createSql.ok
        /\ createSql.stmt.kind = "create"
        /\ createSql.stmt.table = "data"
        /\ Len(createSql.stmt.columns) = Len(Columns) + 3
        /\ createSql.stmt.columns[1] = [name |-> kId, type |-> "SERIAL PRIMARY KEY"]
        /\ \A i \in 1..Len(Columns) :
              /\ createSql.stmt.columns[i + 1].name = Sanitize(Columns[i])
              /\ createSql.stmt.columns[i + 1].type \in NativeTypes
              /\ KindOfSqlType(createSql.stmt.columns[i + 1].type) = TableKind(Columns[i], userData)
        /\ createSql.stmt.columns[Len(Columns) + 2] = [name |-> kCreatedAt, type |-> AuditType]
        /\ createSql.stmt.columns[Len(Columns) + 3] = [name |-> kUpdatedAt, type |-> AuditType]

\* A first row with the keys "a b" and x: five columns, "a_b" BOOLEAN then x NUMERIC.
C14_Witness ==
    /\ Generated
    /\ Len(userData) = 1
    /\ Columns = <<kAB, kX>>
    /\ createSql.ok
    /\ Len(createSql.stmt.columns) = 5
    /\ createSql.stmt.columns[2] = [name |-> <<"a", "_", "b">>, type |-> "BOOLEAN"]
    /\ createSql.stmt.columns[3] = [name |-> kX, type |-> "NUMERIC"]

\* C15 as stated: whenever the column list is empty, be it that the row set is
\* empty or that the first row has no keys, the create generator throws and
\* returns no statement.
C15_NoColumnsNoCreate ==
    (Generated /\ Len(Columns) = 0) => ~createSql.ok

(***************************************************************************)
(* Properties of the handlers                                              *)
(***************************************************************************)
\* The request of slot p uploads a file that parses to no rows.
UploadsNoRows(p) ==
    req[p].op = "upload" /\ req[p].ds # "none" /\ Len(DatasetRows(req[p].ds)) = 0

\* C16: the insert generator returns the empty statement for zero rows and does
\* not throw; and an upload of a file with zero rows hands neither a CREATE TABLE
\* nor an INSERT statement to the engine: the create generator throws before
\* sql.query is reached and the insert step is never entered.
C16_NoRowsNoStatement ==
    /\ generateDynamicInsertSql("data", <<>>) = Returned(EmptyStatement)
    /\ \A p \in Procs :
          UploadsNoRows(p) =>
              /\ req[p].pc # "insertRows"
              /\ ~Called(p, "createTable")
              /\ ~Called(p, "insertRows")

\* An upload of the empty file came to the create step and was answered there.
C16_Witness ==
    /\ UploadsNoRows(1)
    /\ Called(1, "callAnalysis")
    /\ Done(1)
    /\ req[1].resp = 500

\* C17: a delete that starts in the Absent state leaves the state Absent at every
\* step and answers 200 once its two calls (DROP TABLE IF EXISTS, SELECT of the
\* record) have returned, 500 only if one of them threw; and a delete that follows
\* a delete answered 200 and is itself answered 200 leaves the state it found.
C17_DeleteOfAbsentIsNoOp ==
    req[1].op = "delete" =>
        /\ req[1].start = "Absent" =>
              /\ StateKind = "Absent"
              /\ Done(1) =>
                    /\ req[1].resp \in {200, 500}
                    /\ req[1].resp = 200 <=> Calls(1) = <<"dropTable", "selectMeta">>
                    /\ req[1].resp = 500 => Len(Calls(1)) < 2
        /\ (req[1].again /\ Done(1) /\ req[1].resp = 200) => Exists = req[1].from

\* A delete was answered 200 and the delete after it, started in Absent, too.
C17_Witness ==
    /\ req[1].op = "delete"
    /\ req[1].again
    /\ req[1].start = "Absent"
    /\ Done(1)
    /\ req[1].resp = 200
    /\ StateKind = "Absent"

\* C18 as stated: a delete whose calls all succeed, whatever combination of table,
\* record and blob it starts from and whether or not a delete failed before it,
\* is answered 200 and leaves no table, no record and no blob.
C18_DeleteEndsAbsent ==
    (req[1].op = "delete" /\ Done(1) /\ req[1].resp = 200) => StateKind = "Absent"

\* The queries of generatePaginatedDataQuery on the table "data".
TableQueries == {"columns", "count", "rows"}

\* C20: in a GET /api/data request the existence check is the first call; while
\* the table "data" does not exist the request neither stands at nor has made a
\* column-list, count or row query, and it is answered 404 (500 only if the
\* existence check itself threw); 404 is answered only after the existence check
\* alone, and only when the table does not exist.
C20_NotFoundByExistenceCheck ==
    req[1].op = "data" =>
        /\ Len(Calls(1)) > 0 => Calls(1)[1] = "checkTable"
        /\ ~table.exists =>
              /\ req[1].pc \notin TableQueries
              /\ \A q \in TableQueries : ~Called(1, q)
              /\ Done(1) =>
                    \/ req[1].resp = 404 /\ req[1].body = "not found"
                    \/ req[1].resp = 500 /\ Calls(1) = <<>>
        /\ req[1].resp = 404 => (~table.exists /\ Calls(1) = <<"checkTable">>)

\* The page was asked for while a record and a blob exist but no table.
C20_Witness ==
    /\ req[1].op = "data"
    /\ Done(1)
    /\ req[1].resp = 404
    /\ ~table.exists /\ meta # {} /\ blob # NoBlob
    /\ Calls(1) = <<"checkTable">>

\* C19 as stated: the answer of the existence query and the not-found decision
\* of the page query are determined by the durable state alone: an answered
\* check-table request reports whether the metadata record exists, and a page
\* request is answered 404 if no table "data" exists and is not answered 404 if
\* one exists, whatever the process holds in memory.
C19_AnswersFollowDurableState ==
    /\ (req[1].op = "check" /\ Done(1) /\ req[1].resp = 200) =>
           req[1].body = StatusBody(meta # {})
    /\ (req[1].op = "data" /\ Done(1)) =>
           /\ table.exists => req[1].resp # 404
           /\ ~table.exists => (req[1].resp = 404 \/ (req[1].resp = 500 /\ Calls(1) = <<>>))

(***************************************************************************)
(* Properties of the page reads                                            *)
(***************************************************************************)
\* Whether the whole text of the parameter is a decimal integer.
IsNumeric(q) ==
    /\ q.given
    /\ LET digits == IF q.s # <<>> /\ Head(q.s) = "-" THEN Tail(q.s) ELSE q.s
       IN  digits # <<>> /\ \A i \in 1..Len(digits) : IsDigit(digits[i])

\* The supplied value, or the fallback when it is absent or not numeric.
SuppliedOr(q, fallback) ==
    IF ~IsNumeric(q) THEN fallback
    ELSE IF Head(q.s) = "-" THEN 0 - DecimalValue(Tail(q.s))
    ELSE DecimalValue(q.s)

PageRead(p) == req[p].op = "data" /\ req[p].start = "Present"

\* C21: a page read of a Present dataset uses the supplied page number, or 1 when
\* it is absent or not numeric, and the supplied page size, or 10; its row query
\* has offset (page - 1) * size and limit size; the engine executes the row query,
\* and the answer carries the number of rows of the table as totalCount and
\* ceil(totalCount / size) as lastPage.
C21_PagingFollowsQuery ==
    PageRead(1) =>
        LET pageNumber == SuppliedOr(req[1].query.page, 1)
            pageSize == SuppliedOr(req[1].query.limit, 10)
        IN  /\ Called(1, "checkTable") =>
                  /\ req[1].paging.page = pageNumber
                  /\ req[1].paging.limit = pageSize
                  /\ req[1].paging.offset = (pageNumber - 1) * pageSize
            /\ req[1].body # "query rejected"
            /\ (Done(1) /\ req[1].resp = 200) =>
                  /\ req[1].reply.totalCount = Len(table.rows)
                  /\ pageSize # 0 => req[1].reply.lastPage = CeilDiv(Len(table.rows), pageSize)

\* A page read answered 200 that follows the upload of the dataset answered 200,
\* with only page reads answered 200 between them.
ReadAfterUpload(p, d) ==
    /\ req[p].op = "data" /\ Done(p) /\ req[p].resp = 200
    /\ req[p].follows = d

\* The returned value is the coerced value: null for null, else the same text.
SameValue(fetched, coerced) ==
    IF coerced = JsNull THEN fetched = JsNull
    ELSE fetched # JsNull /\ fetched.s = coerced.s

\* The returned row is the i-th coerced row of the dataset under primary key i.
IsCoercedRow(row, d, i) ==
    LET coerced == processedUserData(DatasetRows(d))[i]
    IN  /\ Len(row) = Len(coerced) + 1
        /\ row[1] = <<kId, JsNum(DecimalText(i))>>
        /\ \A c \in 1..Len(coerced) :
              /\ row[c + 1][1] = Sanitize(coerced[c][1])
              /\ SameValue(row[c + 1][2], coerced[c][2])

CallIndex(p, step) ==
    IF Called(p, step) THEN CHOOSE i \in 1..Len(Calls(p)) : Calls(p)[i] = step ELSE 0

\* The request has reached the call: it is about to make it, or it returned.
Reached(p, step) == req[p].pc = step \/ Called(p, step)

\* C23: in an upload the analysis service is called only after the eviction
\* steps, the blob put, CREATE TABLE and the bulk INSERT have been executed, in
\* that order; when the analysis call fails the table "data" exists and holds the
\* rows of the upload.
C23_AnalysisAfterInsert ==
    req[1].op = "upload" =>
        /\ Reached(1, "callAnalysis") =>
              /\ Called(1, "putBlob") /\ Called(1, "createTable") /\ Called(1, "insertRows")
              /\ CallIndex(1, "putBlob") < CallIndex(1, "createTable")
              /\ CallIndex(1, "createTable") < CallIndex(1, "insertRows")
              /\ \A e \in EvictionSteps :
                    Called(1, e) => CallIndex(1, e) < CallIndex(1, "putBlob")
        /\ FailedAfter(1, "fetchBlob") =>
              /\ table.exists
              /\ table = TableOf(req[1].ds)

(***************************************************************************)
(* Properties of the answers                                               *)
(***************************************************************************)
Statuses == {200, 400, 404, 500}

\* The operations that read the current file or its table.
NeedsDataset == QuestionOps \cup {"data"}

\* C24: every request whose handler has ended has been sent one answer, with a
\* status; an operation that needs the dataset, started in the Absent state,
\* whose first query returned, is answered NotFound (404).
C24_EveryRequestAnswered ==
    Done(1) =>
        /\ req[1].resp \in Statuses
        /\ (req[1].op \in NeedsDataset /\ req[1].start = "Absent" /\ Len(Calls(1)) >= 1) =>
              req[1].resp = 404

\* C25: a request for the cards summary started while no dataset is Present
\* calls neither the blob store nor the analysis service and, once the lookup of
\* the record returned, is answered 200 with the fixed empty summary; one started
\* in the Present state and answered 200 carries, unchanged, what the analysis
\* service answered to the current file.
C25_CardsSummary ==
    req[1].op = "cards" =>
        /\ req[1].start # "Present" =>
              /\ ~Reached(1, "fetchBlob") /\ ~Reached(1, "callAnalysis")
              /\ (Done(1) /\ Called(1, "selectMeta")) =>
                    (req[1].resp = 200 /\ req[1].body = EmptySummary)
        /\ (req[1].start = "Present" /\ Done(1) /\ req[1].resp = 200) =>
              /\ req[1].body = req[1].upstream.data
              /\ req[1].body \in AnalysisResults
              /\ req[1].upstream.file = blob

(***************************************************************************)
(* Agreement of the two type inferences                                    *)
(***************************************************************************)
\* C26: for every column of every row set, inferSqlType returns NUMERIC, BOOLEAN,
\* TIMESTAMP WITH TIME ZONE or VARCHAR(255) exactly when inferSequelizeType
\* returns DECIMAL, BOOLEAN, DATE or a text type (STRING, TEXT).
C26_InferencesAgree ==
    Inferred =>
        /\ Len(sqlTypes) = Len(Columns) /\ Len(seqTypes) = Len(Columns)
        /\ \A i \in 1..Len(Columns) :
              /\ KindOfSqlType(sqlTypes[i]) \in {"Numeric", "Boolean", "Timestamp", "Text"}
              /\ KindOfSqlType(sqlTypes[i]) = KindOfSequelizeType(seqTypes[i])

\* A column with a number and a boolean and no string: the first rule of
\* inferSqlType does not apply, that of inferSequelizeType does, and the two
\* return NUMERIC and DECIMAL.
C26_Witness ==
    /\ Inferred
    /\ Len(Columns) = 1
    /\ SawNumber(Columns[1], userData) /\ SawBoolean(Columns[1], userData)
    /\ ~SawString(Columns[1], userData)
    /\ sqlTypes[1] = "NUMERIC" /\ seqTypes[1] = "DECIMAL"

(***************************************************************************)
(* The table and its metadata record                                       *)
(***************************************************************************)
\* C27: with uploads and deletes run one at a time, whatever call fails, the
\* table "data" exists only while the metadata record exists; so an upload finds
\* the record whenever an old table is there, runs the eviction branch, and has
\* no table left when it comes to store its blob and to CREATE TABLE.
C27_TableImpliesRecord ==
    /\ table.exists => meta # {}
    /\ (At(1, "upload", "putBlob") \/ At(1, "upload", "createTable")) => ~table.exists
    /\ (req[1].op = "upload" /\ req[1].start = "Present" /\ Called(1, "selectExisting")) =>
          /\ req[1].existing
          /\ Reached(1, "putBlob") => Called(1, "dropTable")

\* An upload that found the table of an earlier upload dropped it, created its
\* own and failed at the insert: table and record both exist.
C27_Witness ==
    /\ req[1].op = "upload" /\ Done(1) /\ req[1].resp = 500
    /\ req[1].start = "Present"
    /\ Called(1, "dropTable") /\ Called(1, "createTable")
    /\ table.exists /\ meta # {}

\* A delete and an upload that overlapped have both been answered 200.
DeleteAndUploadDone ==
    /\ Done(1) /\ Done(2) /\ overlap
    /\ {req[1].op, req[2].op} = {"delete", "upload"}
    /\ req[1].resp = 200 /\ req[2].resp = 200

\* C28: once a delete and an upload that ran concurrently have both finished,
\* neither with a failure, the state is Absent or Present; in particular the
\* table "data" does not exist without its metadata record.
C28_DeleteUploadEndAbsentOrPresent ==
    DeleteAndUploadDone =>
        /\ StateKind \in {"Absent", "Present"}
        /\ table.exists => meta # {}

====
